---- MODULE Spec2Model ----
(***************************************************************************)
(* Model of the playlist resolution and track acquisition pipeline of the  *)
(* Yandex Music downloader: core/yandex_music_core.py (shared core),       *)
(* music_downloader/services.py and views.py (web service) and             *)
(* yandex_music_downloader.py (command-line downloader).                   *)
(*                                                                         *)
(* Strings are sequences of one-character strings, so that the regular     *)
(* expression search, str.split and str.lower are computed character by    *)
(* character.  Python's None is the empty tuple.                           *)
(***************************************************************************)
EXTENDS Integers, Sequences, FiniteSets, TLC

VARIABLES
    \* ---- constructor arguments ----
    impl,                 \* which implementation runs: "core", "service", "cli"
    preferred_format,     \* self.preferred_format
    \* ---- quality selection (get_best_quality_download_info, lines 284-299) ----
    download_infos,       \* what tracks_download_info returned: variants in order
    best_info,            \* the variant returned, None before/without
    first_best_info,      \* the variant returned for the reply as first received
    reordered,            \* the reply has been received again in another order
    sel_pc,               \* "idle", "select", "done"
    \* ---- variant lookup with retries (get_best_quality_download_info) ----
    max_retries,          \* the retry budget passed in
    attempt,              \* the loop variable of  for attempt in range(max_retries)
    lk_pc,                \* "idle", "attempt", "done"
    lookups,              \* how many times tracks_download_info was called
    sleeps,               \* the arguments of time.sleep, in order
    lk_outcomes,          \* what each call of tracks_download_info ended in, in order
    \* ---- download of one track (download_track_file / download_track) ----
    output_path,          \* core: the path passed in; cli: the path of the last call
    files,                \* the file system: path -> size in bytes, or NoFile
    transfers,            \* how many times session.get was called
    writes,               \* how many times a destination was opened for writing
    ex_results,           \* what each call returned and had done by then, in order
    \* ---- batch fetch (fetch_tracks_batch; liked path of get_playlist_info) ----
    track_ids,            \* the ids to fetch, in playlist order
    batch_size,           \* size of a chunk
    fetchable,            \* remote: the ids client.tracks([id]) returns a track for
    batch_endpoint,       \* remote: "down" (every batch request raises) or "flaky"
    fb_pc,                \* "idle", "batch", "fallback", "done"
    batch_start,          \* i of chunked(): offset of the current chunk
    fallback_k,           \* how many ids of the chunk the fallback loop has tried
    tracks,               \* tracks / tracks_data: the records collected so far
    processed,            \* service: the running count of collected records
    \* ---- the progress record of the session (session['loading_progress']) ----
    progress_events,      \* every value written to it, in order
    \* ---- download run (download_tracks + download_start_api / download_playlist) ----
    rows,                 \* the Track rows of the playlist, in position order
    download_track_ids,   \* session['download_track_ids']: the ids of the ticked rows
    run_pc,               \* "idle", "select", "pending", "loop", "done"
    idx,                  \* how many tracks the loop has been through
    successful,           \* the counter of downloaded tracks
    failed,               \* the counter of failed tracks
    pacing,               \* cli: how many times time.sleep(0.5) was called
    media,                \* the download directory: path -> bytes in the file, or NoFile
    downloaded_tracks,    \* service: the DownloadedTrack rows created, in order
    run_outcomes,         \* what each track of the loop ended in, in order
    run_result,           \* "pending", "success", "failure"
    \* ---- owned playlist loader (playlist path of the service's get_playlist_info) ----
    entries,              \* playlist.tracks: for each entry what it carries
    load_batch_size,      \* size of a chunk of missing_ids
    load_known,           \* remote: the track ids client.tracks has a track for
    missing_ids,          \* the (index, id) pairs left for the batch requests
    load_start,           \* offset of the current chunk of missing_ids
    tracks_data,          \* the records collected so far
    load_outcomes,        \* what each batch request ended in, in order
    ld_pc,                \* "idle", "inline", "batches", "done"
    \* ---- naming of a destination file (download_track / download_tracks) ----
    stem,                 \* "<artists> - <title>" of the track, as characters
    filename,             \* the file name built for it, or None
    nm_pc,                \* "idle", "name", "done"
    \* ---- the web requests playlist_load_api and download_start_api ----
    rq_kind,              \* "load" or "download" ("none": no request)
    session_data,         \* the session holds playlist_url / the download ids
    has_profile,          \* request.user.profile exists
    has_token,            \* profile.yandex_token is not empty
    rq_total,             \* tracks of the playlist / ticked tracks
    rq_current,           \* the count last reported by update_progress
    loading_progress,     \* session['loading_progress'], None when the key is absent
    rq_pc,                \* "idle", "arrived", "running", "saving", "done"
    response,             \* the HTTP status answered, 0 before the answer
    polled,               \* the last answer of the progress api, or None
    \* ---- two runs of one session: a playlist load and a download ----
    cc_pc,                \* per run: "idle", "running", "done"
    cc_current,           \* per run: the count it reported last
    cc_total,             \* per run: the tracks it has to go through
    stored_progress,      \* session['loading_progress'] in the session store, with
                          \* the run that wrote it (ghost field by), or None
    cc_polled,            \* per run: what its progress page read last, or None
    \* ---- the Track table of a playlist and the queries on it ----
    table,                \* the Track rows of the playlist, in the order created
    wanted_ids,           \* track_ids handed to download_tracks
    retrieved,            \* what Track.objects.filter(playlist=...) gave, or None
    iterated,             \* the tracks the download loop went through, or None
    od_pc,                \* "idle", "query", "done"
    \* ---- the downloaded tracks of one downloaded playlist and their files ----
    lib_files,            \* the file names that exist in the playlist directory
    lib_records,          \* the DownloadedTrack rows: [id, file_path], as created
    lib_next_id,          \* the primary key the next row gets
    lib_pc,               \* "idle" or "ready"
    \* ---- the views that serve and delete downloaded tracks ----
    playlist_user,        \* DownloadedPlaylist id -> the user it belongs to
    track_playlist,       \* DownloadedTrack id -> its downloaded playlist
    stored_tracks,        \* the ids of the DownloadedTrack rows that exist
    served,               \* <<user, track id>>: the user was sent the file
    removed,              \* <<user, track id>>: the user's request deleted the row
    acc_pc,               \* "idle" or "ready"
    \* ---- playlist lookup (get_playlist_info / get_playlist) ----
    playlist_identifier,  \* the argument of get_playlist_info
    form,                 \* how the identifier was built (input bookkeeping)
    client,               \* self.client is set
    gp_pc,                \* position inside get_playlist_info
    playlist_info,        \* result of extract_playlist_id, None before/without
    parsed,               \* extract_playlist_id has been called
    remote_calls,         \* remote requests issued, in order
    gp_result             \* what get_playlist_info returned

configVars == <<impl, preferred_format>>
selectVars == <<download_infos, best_info, first_best_info, reordered, sel_pc>>
lookupVars == <<max_retries, attempt, lk_pc, lookups, sleeps, lk_outcomes>>
execVars == <<output_path, files, transfers, writes, ex_results>>
fetchVars == <<track_ids, batch_size, fetchable, batch_endpoint, fb_pc, batch_start,
               fallback_k, tracks, processed>>
sinkVars == <<progress_events>>
runVars == <<rows, download_track_ids, run_pc, idx, successful, failed, pacing, media,
             downloaded_tracks, run_outcomes, run_result>>
loadVars == <<entries, load_batch_size, load_known, missing_ids, load_start, tracks_data,
              load_outcomes, ld_pc>>
nameVars == <<stem, filename, nm_pc>>
requestVars == <<rq_kind, session_data, has_profile, has_token, rq_total, rq_current,
                 loading_progress, rq_pc, response, polled>>
concurrentVars == <<cc_pc, cc_current, cc_total, stored_progress, cc_polled>>
orderVars == <<table, wanted_ids, retrieved, iterated, od_pc>>
libraryVars == <<lib_files, lib_records, lib_next_id, lib_pc>>
accessVars == <<playlist_user, track_playlist, stored_tracks, served, removed, acc_pc>>
resolveVars == <<playlist_identifier, form, client, gp_pc, playlist_info,
                 parsed, remote_calls, gp_result>>

vars == <<configVars, selectVars, lookupVars, execVars, fetchVars, sinkVars, runVars,
          resolveVars,
          loadVars,
          nameVars,
          requestVars,
          concurrentVars,
          orderVars,
          libraryVars,
          accessVars>>

None == <<>>

Max(S) == CHOOSE x \in S : \A y \in S : y <= x

Range(s) == {s[i] : i \in 1..Len(s)}

-----------------------------------------------------------------------------
(* Each specification below runs one operation of the program; the state   *)
(* of the operations it does not run stays as constructed.                 *)

EmptyForm ==
    [kind |-> "raw", scheme |-> <<>>, host |-> <<>>, owner |-> <<>>, digits |-> <<>>,
     uuid |-> <<>>]

\* the state of a selection that is not running
IdleSelect ==
    /\ download_infos = <<>>
    /\ best_info = None
    /\ first_best_info = None
    /\ reordered = FALSE
    /\ sel_pc = "idle"

\* the state of a lookup that is not running
IdleResolve ==
    /\ playlist_identifier = <<>>
    /\ form = EmptyForm
    /\ client = FALSE
    /\ gp_pc = "idle"
    /\ playlist_info = None
    /\ parsed = FALSE
    /\ remote_calls = <<>>
    /\ gp_result = "pending"

\* the state of a batch fetch that is not running
IdleFetch ==
    /\ track_ids = <<>>
    /\ batch_size = 1
    /\ fetchable = {}
    /\ batch_endpoint = "down"
    /\ fb_pc = "idle"
    /\ batch_start = 0
    /\ fallback_k = 0
    /\ tracks = <<>>
    /\ processed = 0

\* a path with no file
NoFile == -1

\* a session with no progress written
IdleSink == progress_events = <<>>

\* the artist and title the file of a track is named after: track 1 has its own,
\* the other tracks share theirs
TrackName(id) == IF id = 1 THEN "a" ELSE "b"

\* the destinations of a run: <sanitised artist - title>.<extension>
RunPaths == {"a", "b"} \X {"mp3", "flac", "aac"}

\* the state with no download run started
IdleRun ==
    /\ rows = <<>>
    /\ download_track_ids = <<>>
    /\ run_pc = "idle"
    /\ idx = 0
    /\ successful = 0
    /\ failed = 0
    /\ pacing = 0
    /\ media = [p \in RunPaths |-> NoFile]
    /\ downloaded_tracks = <<>>
    /\ run_outcomes = <<>>
    /\ run_result = "pending"

\* the state of a variant lookup that is not running
IdleLookup ==
    /\ max_retries = 0
    /\ attempt = 0
    /\ lk_pc = "idle"
    /\ lookups = 0
    /\ sleeps = <<>>
    /\ lk_outcomes = <<>>

\* the destinations, told apart by their extension
Paths == {"mp3", "flac", "aac"}

\* the state with no download of a track made
IdleExec ==
    /\ output_path = None
    /\ files = [p \in Paths |-> NoFile]
    /\ transfers = 0
    /\ writes = 0
    /\ ex_results = <<>>

\* the state of a playlist loader that is not running
IdleLoad ==
    /\ entries = <<>>
    /\ load_batch_size = 1
    /\ load_known = {}
    /\ missing_ids = <<>>
    /\ load_start = 0
    /\ tracks_data = <<>>
    /\ load_outcomes = <<>>
    /\ ld_pc = "idle"

\* the state with no file name asked for
IdleName ==
    /\ stem = <<>>
    /\ filename = None
    /\ nm_pc = "idle"

\* the state with no web request
IdleRequest ==
    /\ rq_kind = "none"
    /\ session_data = FALSE
    /\ has_profile = FALSE
    /\ has_token = FALSE
    /\ rq_total = 0
    /\ rq_current = 0
    /\ loading_progress = <<>>
    /\ rq_pc = "idle"
    /\ response = 0
    /\ polled = <<>>

\* the two runs of a session
Runs == {"load", "download"}

\* the state with no concurrent runs
IdleConcurrent ==
    /\ cc_pc = [r \in Runs |-> "idle"]
    /\ cc_current = [r \in Runs |-> 0]
    /\ cc_total = [r \in Runs |-> 0]
    /\ stored_progress = <<>>
    /\ cc_polled = [r \in Runs |-> <<>>]

\* the state with no Track table looked at
IdleOrder ==
    /\ table = <<>>
    /\ wanted_ids = {}
    /\ retrieved = <<>>
    /\ iterated = <<>>
    /\ od_pc = "idle"

\* the state with no downloaded playlist looked at
IdleLibrary ==
    /\ lib_files = {}
    /\ lib_records = <<>>
    /\ lib_next_id = 1
    /\ lib_pc = "idle"

\* the state with no downloaded tracks to serve
IdleAccess ==
    /\ playlist_user = <<>>
    /\ track_playlist = <<>>
    /\ stored_tracks = {}
    /\ served = {}
    /\ removed = {}
    /\ acc_pc = "idle"

\* what each operation leaves alone
SelectFrameVars == <<configVars, lookupVars, execVars, fetchVars, sinkVars, runVars,
                     resolveVars,
    loadVars,
    nameVars,
    requestVars,
    concurrentVars,
    orderVars,
    libraryVars,
    accessVars>>
LookupFrameVars == <<configVars, execVars, fetchVars, sinkVars, runVars, resolveVars,
                     first_best_info, reordered, sel_pc,
    loadVars,
    nameVars,
    requestVars,
    concurrentVars,
    orderVars,
    libraryVars,
    accessVars>>
ExecFrameVars == <<configVars, selectVars, lookupVars, fetchVars, sinkVars, runVars,
                   resolveVars,
    loadVars,
    nameVars,
    requestVars,
    concurrentVars,
    orderVars,
    libraryVars,
    accessVars>>
FetchFrameVars == <<configVars, selectVars, lookupVars, execVars, runVars, resolveVars,
    loadVars,
    nameVars,
    requestVars,
    concurrentVars,
    orderVars,
    libraryVars,
    accessVars>>
RunFrameVars == <<configVars, selectVars, lookupVars, execVars, fetchVars, resolveVars,
    loadVars,
    nameVars,
    requestVars,
    concurrentVars,
    orderVars,
    libraryVars,
    accessVars>>
LoadFrameVars == <<configVars, selectVars, lookupVars, execVars, fetchVars, sinkVars,
                   runVars, resolveVars,
    nameVars,
    requestVars,
    concurrentVars,
    orderVars,
    libraryVars,
    accessVars>>
NameFrameVars == <<configVars, lookupVars, execVars, fetchVars, sinkVars, runVars,
                   resolveVars, loadVars, first_best_info, reordered, sel_pc,
    requestVars,
    concurrentVars,
    orderVars,
    libraryVars,
    accessVars>>
RequestFrameVars == <<configVars, selectVars, lookupVars, execVars, fetchVars, sinkVars,
                      runVars, resolveVars, loadVars, nameVars,
    concurrentVars,
    orderVars,
    libraryVars,
    accessVars>>
ConcurrentFrameVars == <<configVars, selectVars, lookupVars, execVars, fetchVars, sinkVars,
                         runVars, resolveVars, loadVars, nameVars, requestVars,
    orderVars,
    libraryVars,
    accessVars>>
OrderFrameVars == <<configVars, selectVars, lookupVars, execVars, fetchVars, sinkVars,
                    runVars, resolveVars, loadVars, nameVars, requestVars, concurrentVars,
    libraryVars,
    accessVars>>
LibraryFrameVars == <<configVars, selectVars, lookupVars, execVars, fetchVars, sinkVars,
                      runVars, resolveVars, loadVars, nameVars, requestVars,
                      concurrentVars, orderVars,
    accessVars>>
AccessFrameVars == <<configVars, selectVars, lookupVars, execVars, fetchVars, sinkVars,
                     runVars, resolveVars, loadVars, nameVars, requestVars,
                     concurrentVars, orderVars, libraryVars>>
ResolveFrameVars == <<configVars, selectVars, lookupVars, execVars, fetchVars, sinkVars,
                      runVars,
    loadVars,
    nameVars,
    requestVars,
    concurrentVars,
    orderVars,
    libraryVars,
    accessVars>>

-----------------------------------------------------------------------------
(* Characters and string literals                                          *)

LowerLetters == <<"a", "b", "c", "d", "e", "f", "g", "h", "i", "j", "k", "l", "m",
                  "n", "o", "p", "q", "r", "s", "t", "u", "v", "w", "x", "y", "z">>
UpperLetters == <<"A", "B", "C", "D", "E", "F", "G", "H", "I", "J", "K", "L", "M",
                  "N", "O", "P", "Q", "R", "S", "T", "U", "V", "W", "X", "Y", "Z">>
DigitChars == <<"0", "1", "2", "3", "4", "5", "6", "7", "8", "9">>

IsLower(c) == c \in Range(LowerLetters)
IsDigit(c) == c \in Range(DigitChars)
NotSlash(c) == c # "/"

\* membership in the character classes of url_pattern:  [a-z]  [^/]  \d
InClass(class, c) ==
    CASE class = "[a-z]" -> IsLower(c)
      [] class = "[^/]"  -> NotSlash(c)
      [] class = "\\d"   -> IsDigit(c)

\* str.lower(), character by character
LowerChar(c) ==
    IF \E i \in 1..Len(UpperLetters) : UpperLetters[i] = c
    THEN LowerLetters[CHOOSE i \in 1..Len(UpperLetters) : UpperLetters[i] = c]
    ELSE c

\* a lower() that forgets to fold the case
LowerIdentity(s) == s

Lower(s) == [i \in 1..Len(s) |-> LowerChar(s[i])]

HttpLit == <<"h", "t", "t", "p">>
HostLit == <<":", "/", "/", "m", "u", "s", "i", "c", ".", "y", "a", "n", "d", "e", "x", ".">>
UsersLit == <<"/", "u", "s", "e", "r", "s", "/">>
PlaylistsLit == <<"/", "p", "l", "a", "y", "l", "i", "s", "t", "s", "/">>
Colon == <<":">>

\* the literal lit occurs in s at index i
LitAt(s, i, lit) ==
    /\ i >= 1
    /\ i + Len(lit) - 1 <= Len(s)
    /\ \A k \in 1..Len(lit) : s[i + k - 1] = lit[k]

\* index just past the longest run of characters satisfying InClass from i on
\* (a greedy  [class]+  or  [class]* ; the run is empty when the result is i)
RunEnd(s, i, class) ==
    IF i > Len(s) THEN i
    ELSE Max({j \in i..(Len(s) + 1) : \A k \in i..(j - 1) : InClass(class, s[k])})

-----------------------------------------------------------------------------
(* extract_playlist_id                                                     *)

\* re match of  https?://music\.yandex\.[a-z]+/users/([^/]+)/playlists/(\d+)
\* starting at index i: the two groups, or None
UrlMatchAt(s, i) ==
    LET p1 == i + Len(HttpLit)
        p2 == IF p1 <= Len(s) /\ s[p1] = "s" THEN p1 + 1 ELSE p1
        p3 == p2 + Len(HostLit)
        p4 == RunEnd(s, p3, "[a-z]")
        p5 == p4 + Len(UsersLit)
        p6 == RunEnd(s, p5, "[^/]")
        p7 == p6 + Len(PlaylistsLit)
        p8 == RunEnd(s, p7, "\\d")
    IN  IF /\ LitAt(s, i, HttpLit)
           /\ LitAt(s, p2, HostLit)
           /\ p4 > p3
           /\ LitAt(s, p4, UsersLit)
           /\ p6 > p5
           /\ LitAt(s, p6, PlaylistsLit)
           /\ p8 > p7
        THEN <<SubSeq(s, p5, p6 - 1), SubSeq(s, p7, p8 - 1)>>
        ELSE None

\* re.search: the leftmost position where the pattern matches
UrlSearch(s) ==
    LET hits == {i \in 1..Len(s) : UrlMatchAt(s, i) # None}
    IN  IF hits = {} THEN None
        ELSE UrlMatchAt(s, CHOOSE i \in hits : \A j \in hits : i <= j)

ColonPositions(s) == {i \in 1..Len(s) : s[i] = ":"}

\* a split at the first ':' that does not count the parts
split_owner_id_at_first_colon(s) ==
    IF ColonPositions(s) # {}
    THEN LET c == CHOOSE i \in ColonPositions(s) : \A j \in ColonPositions(s) : i <= j
         IN  <<SubSeq(s, 1, c - 1), SubSeq(s, c + 1, Len(s))>>
    ELSE None

\* if ':' in url_or_id: parts = url_or_id.split(':'); len(parts) == 2
split_owner_id(s) ==
    IF ColonPositions(s) # {} /\ Cardinality(ColonPositions(s)) + 1 = 2
    THEN LET c == CHOOSE i \in ColonPositions(s) : TRUE
         IN  <<SubSeq(s, 1, c - 1), SubSeq(s, c + 1, Len(s))>>
    ELSE None

\* an extract_playlist_id whose pattern was written for https only
extract_playlist_id_https_only(url_or_id) ==
    LET hits == {i \in 1..Len(url_or_id) :
                    UrlMatchAt(url_or_id, i) # None /\ LitAt(url_or_id, i + 4, <<"s">>)}
    IN  IF hits # {}
        THEN UrlMatchAt(url_or_id, CHOOSE i \in hits : \A j \in hits : i <= j)
        ELSE split_owner_id(url_or_id)

extract_playlist_id(url_or_id) ==
    IF UrlSearch(url_or_id) # None
    THEN UrlSearch(url_or_id)
    ELSE split_owner_id(url_or_id)

-----------------------------------------------------------------------------
(* Quality selection: get_best_quality_download_info, the part after the   *)
(* variants arrived                                                        *)

\* bitrate_in_kbps is None
NoBitrate == -1

\* x.bitrate_in_kbps or 0
BitrateOrZero(x) == IF x.bitrate_in_kbps = NoBitrate THEN 0 ELSE x.bitrate_in_kbps

\* a comparison that looks at the first component only
TupleLessFirstOnly(a, b) == a[1] < b[1]

\* Python's < on tuples of numbers of the same length
TupleLess(a, b) ==
    \E i \in 1..Len(a) :
        /\ a[i] < b[i]
        /\ \A j \in 1..(i - 1) : a[j] = b[j]

\* a max() that keeps the last of several equal maxima, and so takes a later
\* item when its key is not smaller
PyMaxLastIndex(keys) ==
    CHOOSE i \in 1..Len(keys) :
        /\ \A j \in 1..Len(keys) : ~TupleLess(keys[i], keys[j])
        /\ \A j \in (i + 1)..Len(keys) : TupleLess(keys[j], keys[i])

\* max(items, key=...): the index of the first item whose key is maximal
PyMaxIndex(keys) ==
    CHOOSE i \in 1..Len(keys) :
        /\ \A j \in 1..Len(keys) : ~TupleLess(keys[i], keys[j])
        /\ \A j \in 1..(i - 1) : TupleLess(keys[j], keys[i])

\* a priority table that ranks mp3 above flac
codec_priority_mp3_first(codec) ==
    CASE codec = "mp3"  -> 4
      [] codec = "flac" -> 3
      [] codec = "aac"  -> 2
      [] OTHER          -> 0

\* core: codec_priority = {'flac': 4, 'mp3': 3, 'aac': 2}; codec_priority.get(codec, 0)
codec_priority(codec) ==
    CASE codec = "flac" -> 4
      [] codec = "mp3"  -> 3
      [] codec = "aac"  -> 2
      [] OTHER          -> 0

\* cli: codec_priority = {'flac': 4, 'mp3': 3, 'aac': 2, 'other': 1}; .get(codec, 0)
cli_codec_priority(codec) ==
    CASE codec = "flac"  -> 4
      [] codec = "mp3"   -> 3
      [] codec = "aac"   -> 2
      [] codec = "other" -> 1
      [] OTHER           -> 0

\* [info for info in download_infos if info.codec == self.preferred_format]
preferred_infos(infos, preferred) ==
    LET IsPreferred(info) == info.codec = preferred
    IN  SelectSeq(infos, IsPreferred)

\* a selection that takes the highest bitrate of the whole list, whatever the codec
select_by_bitrate_only(infos, preferred, which) ==
    infos[PyMaxIndex([i \in 1..Len(infos) |-> <<BitrateOrZero(infos[i])>>])]

\* lines 288-299 of the core (which = "core") and 242-256 of the cli (which = "cli"),
\* for a non-empty list
select_best(infos, preferred, which) ==
    LET pref == preferred_infos(infos, preferred)
        prio(c) == IF which = "cli" THEN cli_codec_priority(c) ELSE codec_priority(c)
    IN  IF pref # <<>>
        THEN pref[PyMaxIndex([i \in 1..Len(pref) |-> <<BitrateOrZero(pref[i])>>])]
        ELSE infos[PyMaxIndex([i \in 1..Len(infos) |->
                        <<prio(infos[i].codec), BitrateOrZero(infos[i])>>])]

MaxVariants == 3

Codecs == {"flac", "mp3", "aac", "ogg", "other"}
Bitrates == {NoBitrate, 128, 320}
PreferredFormats == {"mp3", "ogg"}
Variants == [codec : Codecs, bitrate_in_kbps : Bitrates]

SeqsUpTo(S, n) == UNION {[1..k -> S] : k \in 0..n}

InitSelect ==
    /\ impl \in {"core", "cli"}
    /\ preferred_format \in PreferredFormats
    /\ download_infos \in SeqsUpTo(Variants, MaxVariants)
    /\ best_info = None
    /\ first_best_info = None
    /\ reordered = FALSE
    /\ sel_pc = "select"
    /\ IdleLookup
    /\ IdleExec
    /\ IdleFetch
    /\ IdleSink
    /\ IdleRun
    /\ IdleResolve
    /\ IdleLoad
    /\ IdleName
    /\ IdleRequest
    /\ IdleConcurrent
    /\ IdleOrder
    /\ IdleLibrary
    /\ IdleAccess

\* a lookup that makes up a variant when the reply holds none
best_quality_with_default(infos, preferred, which) ==
    IF infos = <<>>
    THEN [codec |-> preferred, bitrate_in_kbps |-> NoBitrate]
    ELSE select_best(infos, preferred, which)

\* lines 284-299: if not download_infos: return None; else the selected variant
best_quality(infos, preferred, which) ==
    IF infos = <<>> THEN None ELSE select_best(infos, preferred, which)

\* one call of get_best_quality_download_info whose lookup succeeds
SelectBest ==
    /\ sel_pc = "select"
    /\ best_info' = best_quality(download_infos, preferred_format, impl)
    /\ first_best_info' = best_info'
    /\ sel_pc' = "done"
    /\ UNCHANGED <<SelectFrameVars, download_infos, reordered>>

\* infos with the items at i and i + 1 exchanged
SwapAdjacent(infos, i) ==
    [k \in 1..Len(infos) |->
        IF k = i THEN infos[i + 1] ELSE IF k = i + 1 THEN infos[i] ELSE infos[k]]

\* a further call for the same track: the remote lists the same variants in another
\* order (two neighbours exchanged), and the selection runs on that reply
SelectBestReordered ==
    /\ sel_pc = "done"
    /\ \E i \in 1..(Len(download_infos) - 1) :
            download_infos' = SwapAdjacent(download_infos, i)
    /\ best_info' = best_quality(download_infos', preferred_format, impl)
    /\ reordered' = TRUE
    /\ UNCHANGED <<SelectFrameVars, first_best_info, sel_pc>>

NextSelect == SelectBest \/ SelectBestReordered

SpecSelect == InitSelect /\ [][NextSelect]_vars

(* ---- claims about the quality selector ---- *)

\* the bitrate of a variant, a missing one counted as 0
Kbps(x) == IF x.bitrate_in_kbps = NoBitrate THEN 0 ELSE x.bitrate_in_kbps

\* the priorities the specification gives: flac 4, mp3 3, aac 2, any other codec 0
StatedPriority(codec) ==
    CASE codec = "flac" -> 4
      [] codec = "mp3"  -> 3
      [] codec = "aac"  -> 2
      [] OTHER          -> 0

HasPreferred == \E i \in 1..Len(download_infos) : download_infos[i].codec = preferred_format

InList(x) == \E i \in 1..Len(download_infos) : download_infos[i] = x

\* C5: when some variant has the preferred codec, the chosen variant is one of the
\* list, has the preferred codec, and no variant of that codec has a higher bitrate
\* (missing counted as 0), whatever the bitrates of the other codecs.
C5_PreferredCodecHighestBitrate ==
    (sel_pc = "done" /\ download_infos # <<>> /\ HasPreferred) =>
        /\ best_info # None
        /\ InList(best_info)
        /\ best_info.codec = preferred_format
        /\ \A i \in 1..Len(download_infos) :
              download_infos[i].codec = preferred_format =>
                  Kbps(download_infos[i]) <= Kbps(best_info)

C5_Witness ==
    /\ sel_pc = "done"
    /\ preferred_format = "mp3"
    /\ download_infos = << [codec |-> "mp3", bitrate_in_kbps |-> NoBitrate],
                           [codec |-> "mp3", bitrate_in_kbps |-> 128],
                           [codec |-> "flac", bitrate_in_kbps |-> 320] >>
    /\ best_info = [codec |-> "mp3", bitrate_in_kbps |-> 128]

\* C6 as stated: when no variant has the preferred codec, the chosen variant is one
\* of the list and no variant has a larger pair (priority, bitrate), compared
\* lexicographically, with flac 4, mp3 3, aac 2, any other codec 0.
C6_PriorityFallback ==
    (sel_pc = "done" /\ download_infos # <<>> /\ ~HasPreferred) =>
        /\ best_info # None
        /\ InList(best_info)
        /\ \A i \in 1..Len(download_infos) :
              LET x == download_infos[i]
              IN  \/ StatedPriority(x.codec) < StatedPriority(best_info.codec)
                  \/ /\ StatedPriority(x.codec) = StatedPriority(best_info.codec)
                     /\ Kbps(x) <= Kbps(best_info)

\* C6 restricted to the shared core, whose table has no entry for 'other'
C6_CorePriorityFallback == impl = "core" => C6_PriorityFallback

-----------------------------------------------------------------------------
(* The retry loop of get_best_quality_download_info, core and command-line *)
(* copy: one call of tracks_download_info per turn of the loop             *)

MaxRetries == 3
MaxReplyVariants == 2

\* a loop that also waits after the last allowed attempt
retry_allowed_on_last(n, budget) == n < budget

\* if attempt < max_retries - 1
retry_allowed(n, budget) == n < budget - 1

\* wait_time = 2 ** attempt
wait_time(n) == 2 ^ n

InitLookup ==
    /\ impl \in {"core", "cli"}
    /\ preferred_format \in PreferredFormats
    /\ max_retries \in 0..MaxRetries
    /\ attempt = 0
    /\ lk_pc = "attempt"
    /\ lookups = 0
    /\ sleeps = <<>>
    /\ lk_outcomes = <<>>
    /\ IdleSelect
    /\ IdleExec
    /\ IdleFetch
    /\ IdleSink
    /\ IdleRun
    /\ IdleResolve
    /\ IdleLoad
    /\ IdleName
    /\ IdleRequest
    /\ IdleConcurrent
    /\ IdleOrder
    /\ IdleLibrary
    /\ IdleAccess

\* tracks_download_info raises NetworkError / RequestException and the budget
\* allows another turn: sleep 2 ** attempt, continue
LookupNetworkErrorRetry ==
    /\ lk_pc = "attempt"
    /\ attempt < max_retries
    /\ retry_allowed(attempt, max_retries)
    /\ lookups' = lookups + 1
    /\ lk_outcomes' = Append(lk_outcomes, "network")
    /\ sleeps' = Append(sleeps, wait_time(attempt))
    /\ attempt' = attempt + 1
    /\ UNCHANGED <<LookupFrameVars, max_retries, lk_pc, download_infos, best_info>>

\* tracks_download_info raises NetworkError / RequestException on the last turn:
\* log and return None
LookupNetworkErrorGiveUp ==
    /\ lk_pc = "attempt"
    /\ attempt < max_retries
    /\ ~retry_allowed(attempt, max_retries)
    /\ lookups' = lookups + 1
    /\ lk_outcomes' = Append(lk_outcomes, "network")
    /\ best_info' = None
    /\ lk_pc' = "done"
    /\ UNCHANGED <<LookupFrameVars, max_retries, attempt, sleeps, download_infos>>

\* tracks_download_info raises anything else: log and return None
LookupOtherError ==
    /\ lk_pc = "attempt"
    /\ attempt < max_retries
    /\ lookups' = lookups + 1
    /\ lk_outcomes' = Append(lk_outcomes, "error")
    /\ best_info' = None
    /\ lk_pc' = "done"
    /\ UNCHANGED <<LookupFrameVars, max_retries, attempt, sleeps, download_infos>>

\* tracks_download_info returns: nothing (return None) or a list of variants
\* (return the selected one)
LookupReturns ==
    /\ lk_pc = "attempt"
    /\ attempt < max_retries
    /\ \E infos \in SeqsUpTo(Variants, MaxReplyVariants) :
        /\ download_infos' = infos
        /\ best_info' = best_quality(infos, preferred_format, impl)
        /\ lk_outcomes' = Append(lk_outcomes, IF infos = <<>> THEN "empty" ELSE "variants")
    /\ lookups' = lookups + 1
    /\ lk_pc' = "done"
    /\ UNCHANGED <<LookupFrameVars, max_retries, attempt, sleeps>>

\* range(max_retries) is exhausted: the return None after the loop
LookupExhausted ==
    /\ lk_pc = "attempt"
    /\ attempt >= max_retries
    /\ best_info' = None
    /\ lk_pc' = "done"
    /\ UNCHANGED <<LookupFrameVars, max_retries, attempt, lookups, sleeps, lk_outcomes,
                   download_infos>>

NextLookup ==
    \/ LookupNetworkErrorRetry
    \/ LookupNetworkErrorGiveUp
    \/ LookupOtherError
    \/ LookupReturns
    \/ LookupExhausted

SpecLookup == InitLookup /\ [][NextLookup]_vars

(* ---- claims about the retry loop ---- *)

\* C4: the variant lookup is attempted at most max_retries times; every attempt
\* before the last one made ended in a network error and was followed by a wait of
\* 2^attempt seconds (attempt counted from 0); an attempt that does not end in a
\* network error ends the lookup at once (a list of variants gives the selected
\* variant); and when the last allowed attempt ends in a network error the lookup
\* returns failure with no wait after it.
C4_RetryBudget ==
    /\ lookups <= max_retries
    /\ Len(lk_outcomes) = lookups
    /\ \A i \in 1..Len(sleeps) : sleeps[i] = 2 ^ (i - 1)
    /\ \A i \in 1..Len(lk_outcomes) :
        lk_outcomes[i] # "network" => (i = Len(lk_outcomes) /\ lk_pc = "done")
    /\ lk_pc = "attempt" => Len(sleeps) = lookups
    /\ (lk_pc = "done" /\ lookups > 0) =>
        /\ Len(sleeps) = lookups - 1
        /\ lk_outcomes[lookups] = "variants" =>
              best_info = select_best(download_infos, preferred_format, impl)
        /\ lk_outcomes[lookups] = "network" => (lookups = max_retries /\ best_info = None)

C4_Witness ==
    /\ lk_pc = "done"
    /\ max_retries = 3
    /\ lk_outcomes = <<"network", "network", "network">>
    /\ sleeps = <<1, 2>>
    /\ best_info = None

\* C14: a reply with no variants ends the lookup at once with failure: it is the
\* last lookup of the call, no wait follows it (the waits made are those after the
\* network errors before it), also when network errors came first.
C14_NoVariantsNoRetry ==
    \A i \in 1..Len(lk_outcomes) :
        lk_outcomes[i] = "empty" =>
            /\ i = Len(lk_outcomes)
            /\ lookups = i
            /\ lk_pc = "done"
            /\ best_info = None
            /\ Len(sleeps) = i - 1
            /\ \A j \in 1..(i - 1) : lk_outcomes[j] = "network"

C14_Witness ==
    /\ lk_pc = "done"
    /\ max_retries = 3
    /\ lk_outcomes = <<"network", "empty">>
    /\ sleeps = <<1>>
    /\ lookups = 2
    /\ best_info = None

-----------------------------------------------------------------------------
(* Download of one track: YandexMusicCore.download_track_file and          *)
(* YandexMusicDownloader.download_track.  Each action is one whole call    *)
(* with one outcome of the remote; the file system and the counters of     *)
(* transfers and writes carry over from call to call                       *)

MaxCalls == 2
MaxBytes == 2

\* no size reported
NoSize == -1

\* cli: download_info.codec if download_info.codec in ['mp3', 'flac', 'aac'] else 'mp3'
file_extension(codec) == IF codec \in {"mp3", "flac", "aac"} THEN codec ELSE "mp3"

\* the destination of a call: the core is handed it, the cli names it after the
\* selected variant
Destination(which, info) == IF which = "core" THEN output_path ELSE file_extension(info.codec)

\* cli:  if filepath.exists(): return True  (the core has no such test)
skips_existing(which, path) == which = "cli" /\ files[path] # NoFile

\* what a call returned, with the counters as the call left them: it made so many
\* transfers and opened so many files
CallResult(outcome, success, size, path, made, opened) ==
    [outcome |-> outcome, success |-> success, size |-> size, path |-> path,
     transfers |-> transfers + made, writes |-> writes + opened]

\* the size the calls report: the core stats the file, the cli returns a bare True
ReportedSize(which, size) == IF which = "core" THEN size ELSE NoSize

InitExec ==
    /\ impl \in {"core", "cli"}
    /\ preferred_format = "mp3"
    /\ output_path \in (IF impl = "core" THEN Paths ELSE {None})
    /\ files \in [Paths -> {NoFile} \cup 1..MaxBytes]
    /\ transfers = 0
    /\ writes = 0
    /\ ex_results = <<>>
    /\ IdleSelect
    /\ IdleLookup
    /\ IdleFetch
    /\ IdleSink
    /\ IdleRun
    /\ IdleResolve
    /\ IdleLoad
    /\ IdleName
    /\ IdleRequest
    /\ IdleConcurrent
    /\ IdleOrder
    /\ IdleLibrary
    /\ IdleAccess

\* get_best_quality_download_info returns None: return False
DownloadTrack_NoInfo ==
    /\ Len(ex_results) < MaxCalls
    /\ ex_results' = Append(ex_results,
                            CallResult("no_info", FALSE, NoSize, IF impl = "core" THEN output_path ELSE None,
                                                  0, 0))
    /\ UNCHANGED <<ExecFrameVars, output_path, files, transfers, writes>>

\* cli: the destination exists already: return True
DownloadTrack_Skip ==
    /\ Len(ex_results) < MaxCalls
    /\ \E info \in Variants :
        LET path == Destination(impl, info)
        IN  /\ skips_existing(impl, path)
            /\ output_path' = path
            /\ ex_results' = Append(ex_results, CallResult("skip", TRUE, NoSize, path, 0, 0))
    /\ UNCHANGED <<ExecFrameVars, files, transfers, writes>>

\* get_direct_link gives nothing (or raises): return False
DownloadTrack_NoLink ==
    /\ Len(ex_results) < MaxCalls
    /\ \E info \in Variants :
        LET path == Destination(impl, info)
        IN  /\ ~skips_existing(impl, path)
            /\ output_path' = path
            /\ ex_results' = Append(ex_results, CallResult("no_link", FALSE, NoSize, path, 0, 0))
    /\ UNCHANGED <<ExecFrameVars, files, transfers, writes>>

\* a download that opens (and so truncates) the destination before it looks at
\* the status of the response
files_opened_before_status(fs, path) == [fs EXCEPT ![path] = 0]

\* response.raise_for_status() stands before open(output_path, 'wb'): when it
\* raises, the files are as they were
files_after_bad_status(fs, path) == fs

\* session.get raises ("refused"), or raise_for_status raises on a non-2xx status
\* ("bad_status"): return False with the destination not opened
DownloadTrack_Refused ==
    /\ Len(ex_results) < MaxCalls
    /\ transfers' = transfers + 1
    /\ \E info \in Variants, outcome \in {"refused", "bad_status"} :
        LET path == Destination(impl, info)
        IN  /\ ~skips_existing(impl, path)
            /\ output_path' = path
            /\ files' = IF outcome = "bad_status" THEN files_after_bad_status(files, path)
                        ELSE files
            /\ ex_results' = Append(ex_results, CallResult(outcome, FALSE, NoSize, path, 1, 0))
    /\ UNCHANGED <<ExecFrameVars, writes>>

\* the destination is opened for writing (and so truncated) and the stream breaks
\* after written of the size bytes: return False
DownloadTrack_Interrupted ==
    /\ Len(ex_results) < MaxCalls
    /\ transfers' = transfers + 1
    /\ writes' = writes + 1
    /\ \E info \in Variants, size \in 1..MaxBytes :
        \E written \in 0..(size - 1) :
            LET path == Destination(impl, info)
            IN  /\ ~skips_existing(impl, path)
                /\ output_path' = path
                /\ files' = [files EXCEPT ![path] = written]
                /\ ex_results' = Append(ex_results, CallResult("interrupted", FALSE, NoSize, path, 1, 1))
    /\ UNCHANGED ExecFrameVars

\* the destination is opened for writing and all size bytes of the response are
\* written: return True (the core with the size of the file)
DownloadTrack_Written ==
    /\ Len(ex_results) < MaxCalls
    /\ transfers' = transfers + 1
    /\ writes' = writes + 1
    /\ \E info \in Variants, size \in 1..MaxBytes :
        LET path == Destination(impl, info)
        IN  /\ ~skips_existing(impl, path)
            /\ output_path' = path
            /\ files' = [files EXCEPT ![path] = size]
            /\ ex_results' = Append(ex_results,
                                    CallResult("written", TRUE, ReportedSize(impl, size),
                                               path, 1, 1))
    /\ UNCHANGED ExecFrameVars

NextExec ==
    \/ DownloadTrack_NoInfo
    \/ DownloadTrack_Skip
    \/ DownloadTrack_NoLink
    \/ DownloadTrack_Refused
    \/ DownloadTrack_Interrupted
    \/ DownloadTrack_Written

SpecExec == InitExec /\ [][NextExec]_vars

(* ---- claims about the download of one track ---- *)

\* a call to the same destination as the successful call before it, and one that
\* the remote gives a variant and a link for
RepeatsSuccess(i) ==
    /\ ex_results[i].success
    /\ ex_results[i + 1].path = ex_results[i].path
    /\ ex_results[i + 1].outcome \notin {"no_info", "no_link"}

\* C2: when a track is downloaded a second time to the destination of a
\* successful first download (and the remote still offers the track), the second
\* call reports success with the same size, makes no transfer and does not open
\* the file for writing.
C2_IdempotentSkip ==
    \A i \in 1..(Len(ex_results) - 1) :
        RepeatsSuccess(i) =>
            /\ ex_results[i + 1].success
            /\ ex_results[i + 1].size = ex_results[i].size
            /\ ex_results[i + 1].transfers = ex_results[i].transfers
            /\ ex_results[i + 1].writes = ex_results[i].writes

\* the same for the command-line downloader alone, whose calls report no size
C2_CliIdempotentSkip == impl = "cli" => C2_IdempotentSkip

\* C28 as stated: in the command-line downloader, after a call whose transfer
\* broke in mid-stream, a later call for the same destination reports success
\* only if it transferred and wrote the file again in full.
C28_NoSuccessAfterPartialFile ==
    impl = "cli" =>
        \A i \in 1..(Len(ex_results) - 1) :
            (/\ ex_results[i].outcome = "interrupted"
             /\ ex_results[i + 1].path = ex_results[i].path
             /\ ex_results[i + 1].success) =>
                ex_results[i + 1].outcome = "written"

\* what does hold: after a transfer that broke in mid-stream the destination
\* exists, cut short, and the next call for it is a skip that reports success
\* without a transfer
C28_PartialFileIsSkipped ==
    impl = "cli" =>
        \A i \in 1..(Len(ex_results) - 1) :
            (/\ ex_results[i].outcome = "interrupted"
             /\ ex_results[i + 1].path = ex_results[i].path) =>
                /\ ex_results[i + 1].outcome = "skip"
                /\ ex_results[i + 1].success
                /\ ex_results[i + 1].transfers = ex_results[i].transfers

\* the call just made
LastCall == ex_results'[Len(ex_results')]

\* C15: a call whose transfer is answered with a non-2xx status returns failure
\* and leaves every file as it was: the destination is neither created nor
\* modified, and nothing is opened for writing.
C15_BadStatusWritesNothing ==
    [][(Len(ex_results') = Len(ex_results) + 1 /\ LastCall.outcome = "bad_status") =>
            /\ ~LastCall.success
            /\ files' = files
            /\ writes' = writes]_vars

C15_Witness ==
    /\ impl = "core"
    /\ Len(ex_results) = 1
    /\ ex_results[1].outcome = "bad_status"
    /\ ~ex_results[1].success
    /\ files[ex_results[1].path] = NoFile
    /\ transfers = 1
    /\ writes = 0

-----------------------------------------------------------------------------
(* Batch fetch: YandexMusicCore.fetch_tracks_batch, and the liked path of  *)
(* YandexMusicService.get_playlist_info, which has the same loop inline    *)
(* and numbers the records                                                 *)

MaxTracks == 3
NumTrackIds == 3
MaxBatchSize == 3

TrackIds == 1..NumTrackIds

Min(a, b) == IF a <= b THEN a ELSE b

\* a chunked() that slices from the start of the list every time
chunk_from_start(iterable, i, size) == SubSeq(iterable, 1, Min(size, Len(iterable)))

\* chunked(): the slice iterable[i:i+size]
chunk(iterable, i, size) == SubSeq(iterable, i + 1, Min(i + size, Len(iterable)))

\* the record kept for a fetched track: the core keeps the track object, the service
\* a dict with the running position
Record(which, id, position) ==
    IF which = "service" THEN [id |-> id, position |-> position] ELSE [id |-> id]

\* update_progress(current, total, ...)
ProgressEvent(current, total) == [status |-> "loading", current |-> current, total |-> total]

\* the records appended for the ids of a list that the remote has a track for,
\* numbered from position on:  [t for t in batch_tracks if t]
Collected(which, ids, known, position) ==
    LET IsKnown(id) == id \in known
        found == SelectSeq(ids, IsKnown)
    IN  [k \in 1..Len(found) |-> Record(which, found[k], position + k - 1)]

InitFetch ==
    /\ impl \in {"core", "service"}
    /\ preferred_format = "mp3"
    /\ track_ids \in SeqsUpTo(TrackIds, MaxTracks)
    /\ batch_size \in 1..MaxBatchSize
    /\ fetchable \in SUBSET TrackIds
    /\ batch_endpoint \in {"down", "flaky"}
    /\ fb_pc = "batch"
    /\ batch_start = 0
    /\ fallback_k = 0
    /\ tracks = <<>>
    /\ processed = 0
    \* services.py:81  self.update_progress(0, total_tracks, ...)
    /\ progress_events = IF impl = "service" THEN <<ProgressEvent(0, Len(track_ids))>> ELSE <<>>
    /\ IdleSelect
    /\ IdleLookup
    /\ IdleExec
    /\ IdleRun
    /\ IdleResolve
    /\ IdleLoad
    /\ IdleName
    /\ IdleRequest
    /\ IdleConcurrent
    /\ IdleOrder
    /\ IdleLibrary
    /\ IdleAccess

\* one chunk whose batch request succeeds: batch_tracks = self.client.tracks(batch),
\* the tracks found are appended (service: numbered, then update_progress)
FetchBatchOk ==
    /\ fb_pc = "batch"
    /\ batch_start < Len(track_ids)
    /\ batch_endpoint # "down"
    /\ LET got == Collected(impl, chunk(track_ids, batch_start, batch_size), fetchable, processed)
       IN  /\ tracks' = tracks \o got
           /\ processed' = processed + Len(got)
           /\ progress_events' =
                IF impl = "service"
                THEN Append(progress_events, ProgressEvent(processed', Len(track_ids)))
                ELSE progress_events
    /\ batch_start' = batch_start + batch_size
    /\ UNCHANGED <<FetchFrameVars, track_ids, batch_size, fetchable, batch_endpoint,
                   fb_pc, fallback_k>>

\* one chunk whose batch request raises: the except branch starts the per-id loop
FetchBatchFails ==
    /\ fb_pc = "batch"
    /\ batch_start < Len(track_ids)
    /\ fb_pc' = "fallback"
    /\ fallback_k' = 0
    /\ UNCHANGED <<FetchFrameVars, track_ids, batch_size, fetchable, batch_endpoint,
                   batch_start, tracks, processed, progress_events>>

\* one turn of  for track_id in batch:  self.client.tracks([track_id]) ; a track
\* that comes back is appended, an id that fails is skipped; after the last id of
\* the chunk the service reports progress and the outer loop moves on
FetchIndividual ==
    /\ fb_pc = "fallback"
    /\ LET batch == chunk(track_ids, batch_start, batch_size)
           track_id == batch[fallback_k + 1]
           got == Collected(impl, <<track_id>>, fetchable, processed)
           last == fallback_k + 1 = Len(batch)
       IN  /\ tracks' = tracks \o got
           /\ processed' = processed + Len(got)
           /\ fallback_k' = IF last THEN 0 ELSE fallback_k + 1
           /\ batch_start' = IF last THEN batch_start + batch_size ELSE batch_start
           /\ fb_pc' = IF last THEN "batch" ELSE "fallback"
           /\ progress_events' =
                IF last /\ impl = "service"
                THEN Append(progress_events, ProgressEvent(processed', Len(track_ids)))
                ELSE progress_events
    /\ UNCHANGED <<FetchFrameVars, track_ids, batch_size, fetchable, batch_endpoint>>

\* the chunks are exhausted: return tracks
FetchReturn ==
    /\ fb_pc = "batch"
    /\ batch_start >= Len(track_ids)
    /\ fb_pc' = "done"
    /\ UNCHANGED <<FetchFrameVars, track_ids, batch_size, fetchable, batch_endpoint,
                   batch_start, fallback_k, tracks, processed, progress_events>>

NextFetch == FetchBatchOk \/ FetchBatchFails \/ FetchIndividual \/ FetchReturn

SpecFetch == InitFetch /\ [][NextFetch]_vars

(* ---- claims about the batch fetcher ---- *)

\* C3: when every batch request fails and every id of the list can be fetched
\* individually, the fetcher returns exactly one record per id, in the order of
\* the ids, for every list length and batch size.
C3_FallbackRoundTrip ==
    (/\ fb_pc = "done"
     /\ batch_endpoint = "down"
     /\ \A i \in 1..Len(track_ids) : track_ids[i] \in fetchable) =>
        /\ Len(tracks) = Len(track_ids)
        /\ \A i \in 1..Len(track_ids) : tracks[i].id = track_ids[i]

C3_Witness ==
    /\ fb_pc = "done"
    /\ batch_endpoint = "down"
    /\ batch_size = 2
    /\ track_ids = <<2, 1, 2>>
    /\ fetchable = {1, 2}
    /\ Len(tracks) = 3
    /\ tracks[1].id = 2 /\ tracks[2].id = 1 /\ tracks[3].id = 2

-----------------------------------------------------------------------------
(* The playlist path of YandexMusicService.get_playlist_info, after        *)
(* users_playlists gave the playlist: entries that carry their track are   *)
(* taken at once, the ids of the others are requested in chunks, and the   *)
(* records are sorted by position.                                         *)

MaxEntries == 3

\* what an entry of playlist.tracks carries: its track object, only the id of its
\* track, or neither
EntryKinds == {"inline", "ref", "bare"}

\* the id of the track of the entry with index i (counted from 0)
TrackIdAt(i) == 10 + i

\* a None in a reply of client.tracks
NoTrack == 0

\* the dict appended to tracks_data
LoadRecord(id, position) == [id |-> id, position |-> position]

\* the indices 0 .. n-1 in order
Indices(n) == [k \in 1..n |-> k - 1]

\* lines 209-230: the records of the entries that carry their track, position = i
InlineRecords(es) ==
    LET IsInline(i) == es[i + 1] = "inline"
        found == SelectSeq(Indices(Len(es)), IsInline)
    IN  [k \in 1..Len(found) |-> LoadRecord(TrackIdAt(found[k]), found[k])]

\* lines 222-226: missing_ids.append((i, tid))
MissingIds(es) ==
    LET IsRef(i) == es[i + 1] = "ref"
        found == SelectSeq(Indices(Len(es)), IsRef)
    IN  [k \in 1..Len(found) |-> <<found[k], TrackIdAt(found[k])>>]

\* a reply of client.tracks(ids): with aligned, one item per requested id and None
\* for an id the remote has no track for; otherwise the tracks it has, the others
\* left out
Reply(ids, known, aligned) ==
    LET IsKnown(id) == id \in known
    IN  IF aligned
        THEN [j \in 1..Len(ids) |-> IF ids[j] \in known THEN ids[j] ELSE NoTrack]
        ELSE SelectSeq(ids, IsKnown)

\* lines 242-257: for j, t in enumerate(batch_tracks): pos = idxs[j] ...; a None is
\* skipped, a track is appended with position pos
BatchRecords(batch_tracks, idxs) ==
    LET IsTrack(j) == batch_tracks[j] # NoTrack
        found == SelectSeq([j \in 1..Len(batch_tracks) |-> j], IsTrack)
    IN  [k \in 1..Len(found) |->
            LoadRecord(batch_tracks[found[k]],
                       IF found[k] <= Len(idxs) THEN idxs[found[k]] ELSE 0)]

\* tracks_data.sort(key=lambda x: x['position']): a stable sort
SortByPosition(s) ==
    LET Before(j, i) ==
            \/ s[j].position < s[i].position
            \/ s[j].position = s[i].position /\ j < i
        Rank(i) == Cardinality({j \in 1..Len(s) : Before(j, i)}) + 1
    IN  [k \in 1..Len(s) |-> s[CHOOSE i \in 1..Len(s) : Rank(i) = k]]

InitLoad ==
    /\ impl = "service"
    /\ preferred_format = "mp3"
    /\ entries \in SeqsUpTo(EntryKinds, MaxEntries)
    /\ load_batch_size \in 1..MaxBatchSize
    /\ load_known \in SUBSET {TrackIdAt(i) : i \in 0..(MaxEntries - 1)}
    /\ missing_ids = <<>>
    /\ load_start = 0
    /\ tracks_data = <<>>
    /\ load_outcomes = <<>>
    /\ ld_pc = "inline"
    /\ IdleSelect
    /\ IdleLookup
    /\ IdleExec
    /\ IdleFetch
    /\ IdleSink
    /\ IdleRun
    /\ IdleResolve
    /\ IdleName
    /\ IdleRequest
    /\ IdleConcurrent
    /\ IdleOrder
    /\ IdleLibrary
    /\ IdleAccess

\* the first pass over playlist.tracks
LoadInlinePass ==
    /\ ld_pc = "inline"
    /\ tracks_data' = InlineRecords(entries)
    /\ missing_ids' = MissingIds(entries)
    /\ ld_pc' = "batches"
    /\ UNCHANGED <<LoadFrameVars, entries, load_batch_size, load_known, load_start,
                   load_outcomes>>

\* one chunk of missing_ids whose request is answered
LoadBatchReply ==
    /\ ld_pc = "batches"
    /\ load_start < Len(missing_ids)
    /\ \E aligned \in BOOLEAN :
        LET batch == chunk(missing_ids, load_start, load_batch_size)
            idxs == [j \in 1..Len(batch) |-> batch[j][1]]
            ids == [j \in 1..Len(batch) |-> batch[j][2]]
        IN  tracks_data' = tracks_data \o BatchRecords(Reply(ids, load_known, aligned), idxs)
    /\ load_start' = load_start + load_batch_size
    /\ load_outcomes' = Append(load_outcomes, "reply")
    /\ UNCHANGED <<LoadFrameVars, entries, load_batch_size, load_known, missing_ids, ld_pc>>

\* one chunk of missing_ids whose request raises: batch_tracks = [], nothing is
\* appended and the loop goes on with the next chunk
LoadBatchFails ==
    /\ ld_pc = "batches"
    /\ load_start < Len(missing_ids)
    /\ load_start' = load_start + load_batch_size
    /\ load_outcomes' = Append(load_outcomes, "raise")
    /\ UNCHANGED <<LoadFrameVars, entries, load_batch_size, load_known, missing_ids,
                   tracks_data, ld_pc>>

\* after the last chunk: sort by position and return
LoadReturn ==
    /\ ld_pc = "batches"
    /\ load_start >= Len(missing_ids)
    /\ tracks_data' = SortByPosition(tracks_data)
    /\ ld_pc' = "done"
    /\ UNCHANGED <<LoadFrameVars, entries, load_batch_size, load_known, missing_ids,
                   load_start, load_outcomes>>

NextLoad == LoadInlinePass \/ LoadBatchReply \/ LoadBatchFails \/ LoadReturn

SpecLoad == InitLoad /\ [][NextLoad]_vars

(* ---- claims about the positions of the loaded tracks ---- *)

\* C13 as stated, for an owned playlist: in the list the loader returns the
\* position values are 0, 1, ..., n-1 in list order.
C13_PositionsDense ==
    ld_pc = "done" =>
        \A k \in 1..Len(tracks_data) : tracks_data[k].position = k - 1

\* the same for the liked tracks, whose records are numbered as they are collected
C13_LikedPositionsDense ==
    impl = "service" => \A k \in 1..Len(tracks) : tracks[k].position = k - 1

\* the chunk of missing_ids that its m-th item was requested in
ChunkOf(m) == ((m - 1) \div load_batch_size) + 1

\* the ids of the returned records
LoadedIds == {tracks_data[k].id : k \in 1..Len(tracks_data)}

\* C23 as stated: when the batch request of a chunk of referenced ids fails,
\* every id of that chunk is fetched on its own, so every id of the chunk that
\* the remote has a track for is in the result.
C23_FailedBatchFallsBack ==
    ld_pc = "done" =>
        \A m \in 1..Len(missing_ids) :
            (/\ load_outcomes[ChunkOf(m)] = "raise"
             /\ missing_ids[m][2] \in load_known) =>
                missing_ids[m][2] \in LoadedIds

\* what does hold: a chunk whose request raised adds no record at all
C23_FailedBatchAddsNothing ==
    ld_pc = "done" =>
        \A m \in 1..Len(missing_ids) :
            load_outcomes[ChunkOf(m)] = "raise" => missing_ids[m][2] \notin LoadedIds

\* the index in playlist.tracks of the entry of the track with this id
EntryIndexOf(id) == CHOOSE i \in 0..(MaxEntries - 1) : TrackIdAt(i) = id

\* C24 as stated: the merged list is in the order of the entries of the playlist:
\* every returned track has the index of its entry as position, and of any two
\* returned tracks the one of the earlier entry comes first, also when a reply
\* leaves out some of the ids asked for.
C24_MergedInEntryOrder ==
    ld_pc = "done" =>
        /\ \A k \in 1..Len(tracks_data) :
              tracks_data[k].position = EntryIndexOf(tracks_data[k].id)
        /\ \A k, l \in 1..Len(tracks_data) :
              k < l => EntryIndexOf(tracks_data[k].id) < EntryIndexOf(tracks_data[l].id)

\* what does hold: the returned list is sorted by the positions given
C24_MergedInPositionOrder ==
    ld_pc = "done" =>
        \A k, l \in 1..Len(tracks_data) :
            k < l => tracks_data[k].position <= tracks_data[l].position

-----------------------------------------------------------------------------
(* Identifiers the lookup is run on                                        *)

Https == <<"h", "t", "t", "p", "s">>
Ftp == <<"f", "t", "p">>
SchemeSep == <<":", "/", "/">>
Schemes == {HttpLit, Https, Ftp}

MusicLit == <<"m", "u", "s", "i", "c">>
HostYandexRu == <<"m", "u", "s", "i", "c", ".", "y", "a", "n", "d", "e", "x", ".", "r", "u">>
HostYandexCom == <<"m", "u", "s", "i", "c", ".", "y", "a", "n", "d", "e", "x", ".", "c", "o", "m">>
HostYandexComTr == <<"m", "u", "s", "i", "c", ".", "y", "a", "n", "d", "e", "x", ".", "c", "o", "m", ".", "t", "r">>
HostExampleTld == <<"m", "u", "s", "i", "c", ".", "e", "x", "a", "m", "p", "l", "e", ".", "t", "l", "d">>
Hosts == {HostYandexRu, HostYandexCom, HostYandexComTr, HostExampleTld}

Alice == <<"a", "l", "i", "c", "e">>
OwnerWithColon == <<"a", ":", "b">>
Owners == {Alice, OwnerWithColon, <<"b", "o", "b">>}
DigitStrings == {<<"4", "2">>, <<"7">>}

Liked == <<"l", "i", "k", "e", "d">>
Favorites == <<"f", "a", "v", "o", "r", "i", "t", "e", "s">>
My == <<"m", "y">>
LikedTokens == {Liked, Favorites, My}

\* the owner that services.py:180 takes for the mark of a by-uuid reference
UuidOwner ==
    <<"_", "_", "u", "u", "i", "d", "_", "p", "l", "a", "y", "l", "i", "s", "t", "_", "_">>

RawIdentifiers ==
    LikedTokens \cup
    { <<"L", "I", "K", "E", "D">>, <<"L", "i", "k", "e", "d">>,
      <<"F", "A", "V", "O", "R", "I", "T", "E", "S">>, <<"m", "Y">>, <<"M", "Y">>,
      <<"l", "i", "k", "e">>, <<"m", "y", ":", "7">>,
      <<"n", "o", "t", " ", "a", " ", "p", "l", "a", "y", "l", "i", "s", "t">>,
      <<":", "4", "2">>, <<"a", "l", "i", "c", "e", ":">>, <<":">>,
      <<"a", ":", "b", ":", "c">>, <<"a", "l", "i", "c", "e", ":", "4", "2">>,
      <<"b", "o", "b", ":", "7">>, <<>>,
      UuidOwner \o <<":", "1", "f", "-", "a", "0">> }

MkUrl(scheme, host, owner, digits) ==
    scheme \o SchemeSep \o host \o UsersLit \o owner \o PlaylistsLit \o digits

UrlForms == {[kind |-> "url", scheme |-> sc, host |-> h, owner |-> o, digits |-> d,
              uuid |-> <<>>] :
                sc \in Schemes, h \in Hosts, o \in Owners, d \in DigitStrings}

\* stand-ins for the uuid of a public playlist link: hexadecimal digits and dashes
Uuids == {<<"1", "f", "-", "a", "0">>, <<"c", "0", "f", "f", "e", "e">>}

\* scheme://host/playlists/<uuid>
MkUuidUrl(scheme, host, uuid) == scheme \o SchemeSep \o host \o PlaylistsLit \o uuid

UuidUrlForms == {[kind |-> "uuid", scheme |-> sc, host |-> h, owner |-> <<>>,
                  digits |-> <<>>, uuid |-> u] :
                    sc \in Schemes, h \in Hosts, u \in Uuids}

\* s contains lit somewhere
Contains(s, lit) == \E i \in 1..Len(s) : LitAt(s, i, lit)

\* the host ends in a dot followed by a label of lowercase letters
HasTld(host) ==
    \E i \in 1..(Len(host) - 1) :
        host[i] = "." /\ \A k \in (i + 1)..Len(host) : IsLower(host[k])

HostHasMusicAndTld(host) == Contains(host, MusicLit) /\ HasTld(host)

\* the host is music.yandex.<one label of lowercase letters>
IsYandexMusicHost(host) ==
    /\ LitAt(host, 1, SubSeq(HostLit, 4, Len(HostLit)))
    /\ Len(host) > Len(HostLit) - 3
    /\ \A k \in (Len(HostLit) - 2)..Len(host) : IsLower(host[k])

-----------------------------------------------------------------------------
(* get_playlist_info (core, service) and get_playlist (cli)                *)

Impls == {"core", "service", "cli"}

Request(op, owner, playlist_id) == [op |-> op, owner |-> owner, playlist_id |-> playlist_id]

\* a token test that compares without folding the case
IsLikedIdentifierCaseSensitive(id) == id \in LikedTokens

\* playlist_identifier.lower() in ['liked', 'favorites', 'my']
IsLikedIdentifier(id) == Lower(id) \in LikedTokens

InitResolve ==
    /\ impl \in Impls
    /\ preferred_format = "mp3"
    /\ IdleSelect
    /\ IdleLookup
    /\ IdleExec
    /\ IdleFetch
    /\ IdleSink
    /\ IdleRun
    /\ IdleLoad
    /\ IdleName
    /\ IdleRequest
    /\ IdleConcurrent
    /\ IdleOrder
    /\ IdleLibrary
    /\ IdleAccess
    /\ \/ /\ form \in UrlForms
          /\ playlist_identifier = MkUrl(form.scheme, form.host, form.owner, form.digits)
       \/ /\ form \in UuidUrlForms
          /\ playlist_identifier = MkUuidUrl(form.scheme, form.host, form.uuid)
       \/ /\ form = EmptyForm
          /\ playlist_identifier \in RawIdentifiers
    /\ client \in BOOLEAN
    /\ gp_pc = "start"
    /\ playlist_info = None
    /\ parsed = FALSE
    /\ remote_calls = <<>>
    /\ gp_result = "pending"

\* if not self.client: success, msg = self.authenticate(); if not success: return None
\* (the cli's get_playlist does not authenticate: main() did, and goes on if it failed)
GetPlaylistInfo_Authenticate ==
    /\ gp_pc = "start"
    /\ IF impl = "cli" \/ client
       THEN /\ gp_pc' = "dispatch"
            /\ UNCHANGED <<client, gp_result>>
       ELSE \E success \in BOOLEAN :
                /\ client' = success
                /\ gp_pc' = IF success THEN "dispatch" ELSE "done"
                /\ gp_result' = IF success THEN gp_result ELSE "none"
    /\ UNCHANGED <<ResolveFrameVars, playlist_identifier, form, playlist_info, parsed, remote_calls>>

\* the liked branch: users_likes_tracks() and what each implementation makes of it
GetPlaylistInfo_Liked ==
    /\ gp_pc = "dispatch"
    /\ IsLikedIdentifier(playlist_identifier)
    /\ IF ~client
       THEN \* cli with no client: the call raises before any request, caught, None
            /\ gp_pc' = "done"
            /\ gp_result' = "none"
            /\ UNCHANGED remote_calls
       ELSE \E outcome \in {"tracks", "empty", "raise"} :
                /\ remote_calls' = Append(remote_calls, Request("users_likes_tracks", <<>>, <<>>))
                /\ IF outcome = "empty" /\ impl = "service"
                   THEN \* services.py:69 is false: control falls through to line 173
                        /\ gp_pc' = "parse"
                        /\ UNCHANGED gp_result
                   ELSE /\ gp_pc' = "done"
                        /\ gp_result' = IF outcome = "tracks" THEN "liked" ELSE "none"
    /\ UNCHANGED <<ResolveFrameVars, playlist_identifier, form, client, playlist_info, parsed>>

\* playlist_info = self.extract_playlist_id(...); if not playlist_info: return None
GetPlaylistInfo_Parse ==
    /\ \/ gp_pc = "dispatch" /\ ~IsLikedIdentifier(playlist_identifier)
       \/ gp_pc = "parse"
    /\ parsed' = TRUE
    /\ playlist_info' = extract_playlist_id(playlist_identifier)
    /\ IF playlist_info' = None
       THEN gp_pc' = "done" /\ gp_result' = "none"
       ELSE gp_pc' = "lookup" /\ UNCHANGED gp_result
    /\ UNCHANGED <<ResolveFrameVars, playlist_identifier, form, client, remote_calls>>

\* owner, playlist_id = playlist_info; self.client.users_playlists(playlist_id, owner)
\* (service, owner == '__uuid_playlist__': self.resolve_uuid_playlist, which no class
\* defines, so the call raises AttributeError, caught on line 193: return None)
GetPlaylistInfo_Lookup ==
    /\ gp_pc = "lookup"
    /\ IF ~client \/ (impl = "service" /\ playlist_info[1] = UuidOwner)
       THEN /\ gp_result' = "none"
            /\ UNCHANGED remote_calls
       ELSE \E outcome \in {"found", "missing", "raise"} :
                /\ remote_calls' = Append(remote_calls,
                        Request("users_playlists", playlist_info[1], playlist_info[2]))
                /\ gp_result' = IF outcome = "found" THEN "owned" ELSE "none"
    /\ gp_pc' = "done"
    /\ UNCHANGED <<ResolveFrameVars, playlist_identifier, form, client, playlist_info, parsed>>

NextResolve ==
    \/ GetPlaylistInfo_Authenticate
    \/ GetPlaylistInfo_Liked
    \/ GetPlaylistInfo_Parse
    \/ GetPlaylistInfo_Lookup

SpecResolve == InitResolve /\ [][NextResolve]_vars

(* ---- claims about the identifier resolver ---- *)

C9_OwnedOnlyWithTwoNonEmptyParts ==
    (parsed /\ UrlSearch(playlist_identifier) = None /\ playlist_info # None) =>
        /\ Cardinality(ColonPositions(playlist_identifier)) = 1
        /\ playlist_info[1] # <<>>
        /\ playlist_info[2] # <<>>

\* a and b are the same character up to letter case
SameLetter(a, b) ==
    \/ a = b
    \/ \E i \in 1..Len(UpperLetters) : {a, b} = {UpperLetters[i], LowerLetters[i]}

EqualsIgnoringCase(s, t) ==
    Len(s) = Len(t) /\ \A i \in 1..Len(s) : SameLetter(s[i], t[i])

IsLikedToken(id) == \E tok \in LikedTokens : EqualsIgnoringCase(id, tok)

\* C10: for an identifier equal, ignoring case, to liked / favorites / my, the
\* liked-tracks request comes before any URL or owner:id parsing, it is the first
\* request whenever the lookup gets as far as requesting anything, and no
\* owned-playlist lookup is ever issued.
C10_LikedPathFirst ==
    IsLikedToken(playlist_identifier) =>
        /\ parsed => (remote_calls # <<>> /\ remote_calls[1].op = "users_likes_tracks")
        /\ (client /\ gp_pc \in {"parse", "lookup", "done"}) =>
                (remote_calls # <<>> /\ remote_calls[1].op = "users_likes_tracks")
        /\ \A i \in 1..Len(remote_calls) : remote_calls[i].op # "users_playlists"
        /\ gp_pc # "lookup"

C10_Witness ==
    /\ playlist_identifier = <<"L", "I", "K", "E", "D">>
    /\ gp_pc = "done"
    /\ gp_result = "liked"
    /\ remote_calls = <<Request("users_likes_tracks", <<>>, <<>>)>>

\* the identifier has the shape of no playlist URL the lookup is meant to know:
\* it is no URL at all, or a /users/<owner>/playlists/<digits> URL with a scheme or
\* host outside http(s)://music.yandex.<label>
NoUrlPattern ==
    \/ form.kind = "raw"
    \/ /\ form.kind = "url"
       /\ ~(form.scheme \in {HttpLit, Https} /\ IsYandexMusicHost(form.host))

\* C12: an identifier that is no liked token, has no playlist URL pattern and does
\* not hold exactly one ':' parses to no reference; the lookup ends in failure and
\* issues no remote playlist request.
C12_InvalidFormatNoRequest ==
    (/\ ~IsLikedToken(playlist_identifier)
     /\ NoUrlPattern
     /\ Cardinality(ColonPositions(playlist_identifier)) # 1) =>
        /\ parsed => playlist_info = None
        /\ remote_calls = <<>>
        /\ gp_pc # "lookup"
        /\ gp_pc = "done" => gp_result = "none"

C12_Witness ==
    /\ playlist_identifier =
         <<"n", "o", "t", " ", "a", " ", "p", "l", "a", "y", "l", "i", "s", "t">>
    /\ client
    /\ parsed
    /\ gp_pc = "done"
    /\ gp_result = "none"
    /\ remote_calls = <<>>

\* C11 as stated: a URL scheme://host/playlists/<uuid> resolves to a by-uuid
\* reference whose id is the uuid, and no owned-playlist (owner, id) lookup is
\* made for it.
C11_UuidUrlResolvesByUuid ==
    (form.kind = "uuid" /\ parsed) =>
        /\ playlist_info = <<UuidOwner, form.uuid>>
        /\ \A i \in 1..Len(remote_calls) : remote_calls[i].op # "users_playlists"

-----------------------------------------------------------------------------
(* A download run.  Web: download_tracks_view stores the ticked ids and a  *)
(* pending progress record, download_start_api calls                       *)
(* YandexMusicService.download_tracks and writes the closing record.       *)
(* Command line: the loop of YandexMusicDownloader.download_playlist over  *)
(* download_track.  The session store and the database are taken to work.  *)

MaxRows == 3

\* a progress record without current and total
NoCount == -1

\* a value of session['loading_progress']
SessionProgress(status, current, total) ==
    [status |-> status, current |-> current, total |-> total]

\* the items of s at the positions in S, in order
Ticked(s, S) ==
    LET F[i \in 0..Len(s)] ==
            IF i = 0 THEN <<>>
            ELSE IF i \in S THEN Append(F[i - 1], s[i]) ELSE F[i - 1]
    IN  F[Len(s)]

\* what tracks_download_info returns for a track when it returns variants
Offered(id) ==
    CASE id = 1 -> << [codec |-> "mp3", bitrate_in_kbps |-> 128],
                      [codec |-> "mp3", bitrate_in_kbps |-> 320] >>
      [] id = 2 -> << [codec |-> "flac", bitrate_in_kbps |-> NoBitrate],
                      [codec |-> "aac", bitrate_in_kbps |-> 128] >>
      [] OTHER  -> << [codec |-> "ogg", bitrate_in_kbps |-> 320],
                      [codec |-> "mp3", bitrate_in_kbps |-> 128] >>

\* service: max(download_infos, key=lambda x: x.bitrate_in_kbps or 0)
service_best(infos) ==
    infos[PyMaxIndex([i \in 1..Len(infos) |-> <<BitrateOrZero(infos[i])>>])]

\* service: Track.objects.filter(playlist=playlist, yandex_track_id__in=track_ids),
\* in position order; cli: valid_tracks
tracks_to_download ==
    LET IsSelected(id) == id \in Range(download_track_ids)
    IN  SelectSeq(rows, IsSelected)

\* total = tracks_to_download.count()
RunTotal == Len(tracks_to_download)

\* the track of the current turn of the loop
RunTrack == tracks_to_download[idx + 1]

\* the variant a turn of the loop downloads
RunBest(which, id) ==
    IF which = "service" THEN service_best(Offered(id))
    ELSE select_best(Offered(id), preferred_format, "cli")

\* the destination of a turn of the loop
RunPath(which, id) == <<TrackName(id), file_extension(RunBest(which, id).codec)>>

\* a run that counts as successful only when no track failed
run_succeeded_when_none_failed(ok, bad) == bad = 0

\* if successful > 0  /  return successful_downloads > 0
run_succeeded(ok, bad) == ok > 0

InitRun ==
    /\ impl \in {"service", "cli"}
    /\ preferred_format = "mp3"
    /\ rows \in SeqsUpTo(TrackIds, MaxRows) \ {<<>>}
    /\ \E boxes \in (SUBSET (1..Len(rows))) \ {{}} :
        download_track_ids = IF impl = "service" THEN Ticked(rows, boxes) ELSE rows
    /\ run_pc = IF impl = "service" THEN "select" ELSE "pending"
    /\ idx = 0
    /\ successful = 0
    /\ failed = 0
    /\ pacing = 0
    /\ media = [p \in RunPaths |-> NoFile]
    /\ downloaded_tracks = <<>>
    /\ run_outcomes = <<>>
    /\ run_result = "pending"
    /\ progress_events = <<>>
    /\ IdleSelect
    /\ IdleLookup
    /\ IdleExec
    /\ IdleFetch
    /\ IdleResolve
    /\ IdleLoad
    /\ IdleName
    /\ IdleRequest
    /\ IdleConcurrent
    /\ IdleOrder
    /\ IdleLibrary
    /\ IdleAccess

\* download_tracks_view: the ticked ids and a pending record go to the session
DownloadTracksView ==
    /\ run_pc = "select"
    /\ progress_events' =
         Append(progress_events, SessionProgress("pending", 0, Len(download_track_ids)))
    /\ run_pc' = "pending"
    /\ UNCHANGED <<RunFrameVars, rows, download_track_ids, idx, successful, failed, pacing,
                   media, downloaded_tracks, run_outcomes, run_result>>

\* service: authenticate fails, download_tracks returns (False, msg, None) and
\* download_start_api writes the error record; cli: get_playlist gives nothing and
\* download_playlist returns False
DownloadTracks_AuthFails ==
    /\ run_pc = "pending"
    /\ run_result' = "failure"
    /\ progress_events' =
         IF impl = "service"
         THEN Append(progress_events, SessionProgress("error", NoCount, NoCount))
         ELSE progress_events
    /\ run_pc' = "done"
    /\ UNCHANGED <<RunFrameVars, rows, download_track_ids, idx, successful, failed, pacing,
                   media, downloaded_tracks, run_outcomes>>

\* the counters are zeroed and the service reports update_progress(0, total)
DownloadTracks_Start ==
    /\ run_pc = "pending"
    /\ successful' = 0
    /\ failed' = 0
    /\ idx' = 0
    /\ progress_events' =
         IF impl = "service"
         THEN Append(progress_events, ProgressEvent(0, RunTotal))
         ELSE progress_events
    /\ run_pc' = "loop"
    /\ UNCHANGED <<RunFrameVars, rows, download_track_ids, pacing, media, downloaded_tracks,
                   run_outcomes, run_result>>

\* a loop that lets a failing track go uncounted
failed_after_uncounted(n, counted) == n

\* failed += 1 on no variants, no link and in the except branch
\* (cli: failed_downloads += 1 when download_track returns False)
failed_after(n, counted) == IF counted = "failed" THEN n + 1 ELSE n

\* one turn of the loop over tracks_to_download, told by what the remote did:
\* counted says which counter the turn adds to, raised whether the turn ended in
\* the except branch or after the transfer (the service then reports
\* update_progress(idx, total)), written how many bytes went to the destination
\* (NoFile: it was not opened)
LoopStep(outcome, counted, raised, written) ==
    LET track == RunTrack
        path == RunPath(impl, track)
        best == RunBest(impl, track)
    IN  /\ idx' = idx + 1
        /\ successful' = IF counted = "successful" THEN successful + 1 ELSE successful
        /\ failed' = failed_after(failed, counted)
        /\ progress_events' =
             IF impl = "service"
             THEN progress_events \o <<ProgressEvent(idx, RunTotal)>>
                    \o (IF raised THEN <<ProgressEvent(idx + 1, RunTotal)>> ELSE <<>>)
             ELSE progress_events
        /\ pacing' = IF impl = "cli" THEN pacing + 1 ELSE pacing
        /\ media' = IF written = NoFile THEN media ELSE [media EXCEPT ![path] = written]
        /\ downloaded_tracks' =
             IF impl = "service" /\ counted = "successful"
             THEN Append(downloaded_tracks,
                         [title |-> TrackName(track), file_path |-> path,
                          file_size |-> written, format |-> path[2],
                          bitrate |-> best.bitrate_in_kbps])
             ELSE downloaded_tracks
        /\ run_outcomes' = Append(run_outcomes, outcome)
        /\ UNCHANGED <<RunFrameVars, rows, download_track_ids, run_pc, run_result>>

\* the loop has a track to work on
InLoop == run_pc = "loop" /\ idx < RunTotal

\* cli:  if filepath.exists()  (the service has no such test)
RunSkips == impl = "cli" /\ media[RunPath(impl, RunTrack)] # NoFile

\* tracks_download_info returns nothing
Track_NoVariants ==
    /\ InLoop
    /\ LoopStep("no_variants", "failed", FALSE, NoFile)

\* cli: the destination exists, download_track returns True
Track_Skipped ==
    /\ InLoop
    /\ RunSkips
    /\ LoopStep("skipped", "successful", FALSE, NoFile)

\* get_direct_link returns nothing
Track_NoLink ==
    /\ InLoop
    /\ ~RunSkips
    /\ LoopStep("no_link", "failed", FALSE, NoFile)

\* the request for the audio raises, or answers with a non-2xx status on which
\* raise_for_status raises: the destination is not opened
Track_TransferRefused ==
    /\ InLoop
    /\ ~RunSkips
    /\ LoopStep("transfer_error", "failed", impl = "service", NoFile)

\* the destination is opened and the stream breaks before its one chunk is written
Track_TransferInterrupted ==
    /\ InLoop
    /\ ~RunSkips
    /\ LoopStep("transfer_interrupted", "failed", impl = "service", 0)

\* the destination is written (service: and its DownloadedTrack row created)
Track_Downloaded ==
    /\ InLoop
    /\ ~RunSkips
    /\ LoopStep("downloaded", "successful", impl = "service", 1)

\* after the last track.  service: with successful > 0 update_progress(total, total)
\* and return True, on which download_start_api writes the completed record with
\* current = total = len(track_ids); otherwise return False and the view writes
\* the error record.  cli: return successful_downloads > 0
DownloadTracks_Finish ==
    /\ run_pc = "loop"
    /\ idx >= RunTotal
    /\ LET success == run_succeeded(successful, failed)
           total_tracks == Len(download_track_ids)
       IN  /\ run_result' = IF success THEN "success" ELSE "failure"
           /\ progress_events' =
                IF impl # "service" THEN progress_events
                ELSE IF success
                THEN progress_events \o
                       << ProgressEvent(RunTotal, RunTotal),
                          SessionProgress("completed", total_tracks, total_tracks) >>
                ELSE Append(progress_events, SessionProgress("error", NoCount, NoCount))
    /\ run_pc' = "done"
    /\ UNCHANGED <<RunFrameVars, rows, download_track_ids, idx, successful, failed, pacing,
                   media, downloaded_tracks, run_outcomes>>

NextRun ==
    \/ DownloadTracksView
    \/ DownloadTracks_AuthFails
    \/ DownloadTracks_Start
    \/ Track_NoVariants
    \/ Track_Skipped
    \/ Track_NoLink
    \/ Track_TransferRefused
    \/ Track_TransferInterrupted
    \/ Track_Downloaded
    \/ DownloadTracks_Finish

SpecRun == InitRun /\ [][NextRun]_vars

(* ---- claims about download runs ---- *)

\* the tracks of the run that failed for a reason of their own
FailedTracks ==
    {i \in 1..Len(run_outcomes) :
        run_outcomes[i] \in {"no_variants", "no_link", "transfer_error",
                              "transfer_interrupted"}}

\* the last value written to the progress record
LastProgress == progress_events[Len(progress_events)]

\* C1: when a run has gone through its N tracks and K < N of them failed for
\* per-track reasons (no variants, no link, transfer error), the run is reported
\* successful with successful = N - K and failed = K, and the last progress record
\* of the web run is in the completed phase with current = total; at every turn
\* of the loop successful + failed is the number of tracks gone through.
C1_PartialFailure ==
    /\ run_pc \in {"loop", "done"} => successful + failed = idx
    /\ (/\ run_pc = "done"
        /\ Len(run_outcomes) = RunTotal
        /\ Cardinality(FailedTracks) < RunTotal) =>
           /\ run_result = "success"
           /\ successful = RunTotal - Cardinality(FailedTracks)
           /\ failed = Cardinality(FailedTracks)
           /\ impl = "service" =>
                /\ LastProgress.status = "completed"
                /\ LastProgress.current = LastProgress.total

C1_Witness ==
    /\ impl = "service"
    /\ run_pc = "done"
    /\ rows = <<1, 2, 3>>
    /\ download_track_ids = <<1, 2, 3>>
    /\ run_outcomes = <<"no_variants", "downloaded", "transfer_error">>
    /\ successful = 1
    /\ failed = 2
    /\ run_result = "success"
    /\ LastProgress = SessionProgress("completed", 3, 3)

\* C17: when every track of a run failed, the loop has still gone through all of
\* them, the run has ended (no exception left it), successful = 0 and failed is
\* the number of tracks, and the run is reported as unsuccessful; the web run
\* leaves the error record as the last progress record.
C17_AllTracksFail ==
    (/\ run_pc = "done"
     /\ run_outcomes # <<>>
     /\ Cardinality(FailedTracks) = Len(run_outcomes)) =>
        /\ Len(run_outcomes) = RunTotal
        /\ idx = RunTotal
        /\ successful = 0
        /\ failed = RunTotal
        /\ run_result = "failure"
        /\ impl = "service" => LastProgress.status = "error"

C17_Witness ==
    /\ run_pc = "done"
    /\ download_track_ids = <<1, 2, 3>>
    /\ run_outcomes = <<"no_link", "transfer_error", "no_variants">>
    /\ successful = 0
    /\ failed = 3
    /\ run_result = "failure"

\* C18 as stated: in every download run a pacing delay lies between any two
\* consecutive track downloads, so a run that has gone through n tracks has
\* slept at least n - 1 times.
C18_PacingBetweenTracks ==
    run_pc \in {"loop", "done"} => pacing >= idx - 1

\* what does hold: the command-line run sleeps once after every track, the last
\* one included; the service run never sleeps
C18_PacingPerImplementation ==
    run_pc \in {"loop", "done"} => pacing = IF impl = "cli" THEN idx ELSE 0

\* the other half of C18: fetching metadata in batches calls time.sleep nowhere
C18_NoPacingBetweenBatches ==
    fb_pc # "idle" => (pacing = 0 /\ sleeps = <<>>)

\* the place of a phase on the line pending, loading, saving, downloading, completed
PhaseRank(status) ==
    CASE status = "pending"     -> 0
      [] status = "loading"     -> 1
      [] status = "saving"      -> 2
      [] status = "downloading" -> 3
      [] status = "completed"   -> 4
      [] OTHER                  -> 5

\* the phases of the records of s only move forward, error may follow any phase,
\* and nothing follows completed or error
PhasesForward(s) ==
    /\ \A i \in 1..Len(s) : s[i].status \in {"completed", "error"} => i = Len(s)
    /\ \A i \in 1..(Len(s) - 1) :
          \/ s[i + 1].status = "error"
          \/ PhaseRank(s[i].status) <= PhaseRank(s[i + 1].status)

\* C19 as stated: within a run the progress phase only moves forward along
\* pending, loading, saving, downloading, completed, error may follow any phase,
\* nothing is written after completed or error, and the records written while
\* the tracks are downloaded are in the downloading phase.
C19_PhaseOrder ==
    /\ PhasesForward(progress_events)
    /\ (impl = "service" /\ run_pc = "loop" /\ idx > 0) =>
          LastProgress.status = "downloading"

\* what does hold: the phases move forward and end with completed or error, and
\* every record of a track download is written in the loading phase
C19_PhaseOrderAsWritten ==
    /\ PhasesForward(progress_events)
    /\ (impl = "service" /\ run_pc = "loop") => LastProgress.status = "loading"
    /\ \A i \in 1..Len(progress_events) : progress_events[i].status # "downloading"
    /\ (impl = "service" /\ run_pc = "done") => LastProgress.status \in {"completed", "error"}

\* C15 in a run: a track whose transfer is refused or answered with a non-2xx
\* status is counted as failed, and no file and no DownloadedTrack row changes.
C15_RunBadStatusWritesNothing ==
    [][(/\ Len(run_outcomes') = Len(run_outcomes) + 1
        /\ run_outcomes'[Len(run_outcomes')] = "transfer_error") =>
            /\ media' = media
            /\ downloaded_tracks' = downloaded_tracks
            /\ failed' = failed + 1
            /\ successful' = successful]_vars

-----------------------------------------------------------------------------
(* The file name of a track: download_track of the command-line downloader *)
(* (lines 324-334, with sanitize_filename) and download_tracks of the      *)
(* service (lines 394-405, with _sanitize_filename)                        *)

\* if len(filename) > 200: filename = filename[:200]
NameLimit == 200

\* invalid_chars = '<>:"/\\|?*'
InvalidChars == {"<", ">", ":", "\"", "/", "\\", "|", "?", "*"}

\* for char in invalid_chars: filename = filename.replace(char, '_')
ReplaceInvalid(s) == [i \in 1..Len(s) |-> IF s[i] \in InvalidChars THEN "_" ELSE s[i]]

\* filename[:200]
Truncate(s) == IF Len(s) > NameLimit THEN SubSeq(s, 1, NameLimit) ELSE s

\* str.strip(), for the blanks of the names used here
Strip(s) ==
    LET inked == {i \in 1..Len(s) : s[i] # " "}
    IN  IF inked = {} THEN <<>>
        ELSE SubSeq(s, CHOOSE i \in inked : \A j \in inked : i <= j,
                       CHOOSE i \in inked : \A j \in inked : j <= i)

\* cli and core: sanitize_filename
sanitize_filename(s) == Strip(Truncate(ReplaceInvalid(s)))

\* service: _sanitize_filename
service_sanitize_filename(s) == Truncate(ReplaceInvalid(s))

\* a codec name as characters
CodecChars(codec) ==
    CASE codec = "mp3"   -> <<"m", "p", "3">>
      [] codec = "flac"  -> <<"f", "l", "a", "c">>
      [] codec = "aac"   -> <<"a", "a", "c">>
      [] codec = "ogg"   -> <<"o", "g", "g">>
      [] codec = "other" -> <<"o", "t", "h", "e", "r">>

\* cli: filename = sanitize_filename(f"{artists} - {title}.{file_extension}")
\* service: filename = f"{_sanitize_filename(artist - title)}.{file_extension}"
BuildFilename(which, s, codec) ==
    LET ext == CodecChars(file_extension(codec))
    IN  IF which = "cli"
        THEN sanitize_filename(s \o <<".">> \o ext)
        ELSE service_sanitize_filename(s) \o <<".">> \o ext

\* n times the character c
Repeat(c, n) == [i \in 1..n |-> c]

\* the artist-and-title parts the names are built from
Stems ==
    { <<"a", " ", "-", " ", "b">>,
      <<"A", "C", "/", "D", "C", " ", "-", " ", "T", ".", "N", ".", "T">>,
      <<"w", "h", "o", "?", " ", "-", " ", "x", " ">>,
      Repeat("x", NameLimit - 5),
      Repeat("x", NameLimit),
      Repeat("y", NameLimit + 50) }

InitName ==
    /\ impl \in {"cli", "service"}
    /\ preferred_format \in PreferredFormats
    /\ download_infos \in SeqsUpTo(Variants, MaxReplyVariants) \ {<<>>}
    /\ best_info = None
    /\ first_best_info = None
    /\ reordered = FALSE
    /\ sel_pc = "idle"
    /\ stem \in Stems
    /\ filename = None
    /\ nm_pc = "name"
    /\ IdleLookup
    /\ IdleExec
    /\ IdleFetch
    /\ IdleSink
    /\ IdleRun
    /\ IdleResolve
    /\ IdleLoad
    /\ IdleRequest
    /\ IdleConcurrent
    /\ IdleOrder
    /\ IdleLibrary
    /\ IdleAccess

\* the variant is selected and the file is named after it
NameDestination ==
    /\ nm_pc = "name"
    /\ best_info' = IF impl = "service" THEN service_best(download_infos)
                    ELSE select_best(download_infos, preferred_format, "cli")
    /\ filename' = BuildFilename(impl, stem, best_info'.codec)
    /\ nm_pc' = "done"
    /\ UNCHANGED <<NameFrameVars, download_infos, stem>>

NextName == NameDestination

SpecName == InitName /\ [][NextName]_vars

(* ---- claims about file names ---- *)

\* the characters after the last '.' of a name, None when it has no '.'
Extension(name) ==
    LET dots == {i \in 1..Len(name) : name[i] = "."}
    IN  IF dots = {} THEN None
        ELSE SubSeq(name, (CHOOSE i \in dots : \A j \in dots : j <= i) + 1, Len(name))

\* C16 as stated: the name of the destination file ends in '.' and the codec of
\* the variant selected, whatever that codec is.
C16_ExtensionIsSelectedCodec ==
    nm_pc = "done" => Extension(filename) = CodecChars(best_info.codec)

\* what does hold: a name that was not cut at the length limit carries the selected
\* codec when that is mp3, flac or aac, and mp3 for every other codec
C16_ExtensionOfKnownCodecs ==
    (nm_pc = "done" /\ (impl = "service" \/ Len(stem) + 5 <= NameLimit)) =>
        Extension(filename) =
            IF best_info.codec \in {"mp3", "flac", "aac"}
            THEN CodecChars(best_info.codec) ELSE <<"m", "p", "3">>

-----------------------------------------------------------------------------
(* The web requests that run a playlist load and a download: views.py        *)
(* playlist_load_api (136-238), download_start_api (336-373) and the         *)
(* progress apis (242-246, 377-380)                                          *)

\* a value of session['loading_progress']; message says whether it has the key
ProgressRecord(status, current, total, message) ==
    [status |-> status, current |-> current, total |-> total, message |-> message]

\* request.session.get('loading_progress', {'status': 'pending'})
ProgressAnswer ==
    IF loading_progress = None
    THEN ProgressRecord("pending", NoCount, NoCount, FALSE)
    ELSE loading_progress

\* {'status': 'error', 'message': ...}
ErrorRecord == ProgressRecord("error", NoCount, NoCount, TRUE)

\* the checks both apis make before anything is run
PreChecksPass == session_data /\ has_profile /\ has_token

\* a request arrives.  With its data in the session the view that put it there
\* also wrote the pending record (home_view line 79, download_tracks_view line
\* 318); a session without the data has no progress record.  The profile and its
\* token can have gone since.
InitRequest ==
    /\ impl = "service"
    /\ preferred_format = "mp3"
    /\ rq_kind \in {"load", "download"}
    /\ session_data \in BOOLEAN
    /\ has_profile \in BOOLEAN
    /\ has_token \in {b \in BOOLEAN : b => has_profile}
    /\ rq_total \in IF ~session_data THEN {0}
                    ELSE IF rq_kind = "download" THEN 1..MaxRows ELSE 0..MaxRows
    /\ rq_current = 0
    /\ loading_progress =
         IF ~session_data THEN None
         ELSE IF rq_kind = "load" THEN ProgressRecord("pending", 0, 0, FALSE)
         ELSE ProgressRecord("pending", 0, rq_total, TRUE)
    /\ rq_pc = "arrived"
    /\ response = 0
    /\ polled = None
    /\ IdleSelect
    /\ IdleLookup
    /\ IdleExec
    /\ IdleFetch
    /\ IdleSink
    /\ IdleRun
    /\ IdleResolve
    /\ IdleLoad
    /\ IdleName
    /\ IdleConcurrent
    /\ IdleOrder
    /\ IdleLibrary
    /\ IdleAccess

\* the request is answered with status and the record written last
Answer(status, record) ==
    /\ response' = status
    /\ loading_progress' = record
    /\ rq_pc' = "done"
    /\ UNCHANGED <<RequestFrameVars, rq_kind, session_data, has_profile, has_token,
                   rq_total, rq_current, polled>>

\* the request goes on to stage pc with record written
Proceed(pc, current, record) ==
    /\ rq_pc' = pc
    /\ rq_current' = current
    /\ loading_progress' = record
    /\ UNCHANGED <<RequestFrameVars, rq_kind, session_data, has_profile, has_token,
                   rq_total, response, polled>>

\* playlist_load_api: no playlist_url, no profile or no token: 400, nothing written
PlaylistLoadApi_Rejected ==
    /\ rq_kind = "load"
    /\ rq_pc = "arrived"
    /\ ~PreChecksPass
    /\ Answer(400, loading_progress)

\* the loading record is written and get_playlist_info is called
PlaylistLoadApi_Start ==
    /\ rq_kind = "load"
    /\ rq_pc = "arrived"
    /\ PreChecksPass
    /\ Proceed("running", 0, ProgressRecord("loading", 0, 0, TRUE))

\* get_playlist_info reports a batch through update_progress
PlaylistLoadApi_Reports ==
    /\ rq_kind = "load"
    /\ rq_pc = "running"
    /\ rq_current < rq_total
    /\ Proceed("running", rq_current + 1,
               ProgressRecord("loading", rq_current + 1, rq_total, TRUE))

\* get_playlist_info returns nothing
PlaylistLoadApi_NoPlaylist ==
    /\ rq_kind = "load"
    /\ rq_pc = "running"
    /\ Answer(400, ErrorRecord)

\* the playlist is there: the saving record is written with the tracks found
PlaylistLoadApi_Saving ==
    /\ rq_kind = "load"
    /\ rq_pc = "running"
    /\ \E tracks_count \in {rq_current, rq_total} :
          Proceed("saving", tracks_count,
                  ProgressRecord("saving", tracks_count, rq_total, TRUE))

\* save_playlist_preview returns nothing
PlaylistLoadApi_SaveFails ==
    /\ rq_kind = "load"
    /\ rq_pc = "saving"
    /\ Answer(400, ErrorRecord)

\* the playlist is saved
PlaylistLoadApi_Completed ==
    /\ rq_kind = "load"
    /\ rq_pc = "saving"
    /\ Answer(200, ProgressRecord("completed", rq_current, rq_total, TRUE))

\* an exception anywhere in the try block
PlaylistLoadApi_Raises ==
    /\ rq_kind = "load"
    /\ rq_pc \in {"running", "saving"}
    /\ Answer(500, ErrorRecord)

\* download_start_api: no download data, no profile or no token: 400, nothing written
DownloadStartApi_Rejected ==
    /\ rq_kind = "download"
    /\ rq_pc = "arrived"
    /\ ~PreChecksPass
    /\ Answer(400, loading_progress)

\* download_tracks is called and reports update_progress(0, total)
DownloadStartApi_Start ==
    /\ rq_kind = "download"
    /\ rq_pc = "arrived"
    /\ PreChecksPass
    /\ Proceed("running", 0, ProgressRecord("loading", 0, rq_total, TRUE))

\* download_tracks reports a track through update_progress
DownloadStartApi_Reports ==
    /\ rq_kind = "download"
    /\ rq_pc = "running"
    /\ rq_current < rq_total
    /\ Proceed("running", rq_current + 1,
               ProgressRecord("loading", rq_current + 1, rq_total, TRUE))

\* download_tracks returns True
DownloadStartApi_Completed ==
    /\ rq_kind = "download"
    /\ rq_pc = "running"
    /\ rq_current = rq_total
    /\ Answer(200, ProgressRecord("completed", rq_total, rq_total, TRUE))

\* download_tracks returns False: authentication failed before the loop, no track
\* was downloaded, or an exception reached its outer except
DownloadStartApi_Failed ==
    /\ rq_kind = "download"
    /\ \/ rq_pc = "arrived" /\ PreChecksPass
       \/ rq_pc = "running"
    /\ Answer(500, ErrorRecord)

\* playlist_progress_api / download_progress_api
ProgressApi ==
    /\ rq_pc # "idle"
    /\ polled # ProgressAnswer
    /\ polled' = ProgressAnswer
    /\ UNCHANGED <<RequestFrameVars, rq_kind, session_data, has_profile, has_token,
                   rq_total, rq_current, loading_progress, rq_pc, response>>

NextRequest ==
    \/ PlaylistLoadApi_Rejected
    \/ PlaylistLoadApi_Start
    \/ PlaylistLoadApi_Reports
    \/ PlaylistLoadApi_NoPlaylist
    \/ PlaylistLoadApi_Saving
    \/ PlaylistLoadApi_SaveFails
    \/ PlaylistLoadApi_Completed
    \/ PlaylistLoadApi_Raises
    \/ DownloadStartApi_Rejected
    \/ DownloadStartApi_Start
    \/ DownloadStartApi_Reports
    \/ DownloadStartApi_Completed
    \/ DownloadStartApi_Failed
    \/ ProgressApi

SpecRequest == InitRequest /\ [][NextRequest]_vars

(* ---- claims about the web requests ---- *)

\* C20 as stated: every load or download request that ends in failure, the ones
\* refused before the run starts included, leaves the progress record in the
\* error phase with a message, so that a poll made after it reads error.
C20_FailureLeavesError ==
    (rq_pc = "done" /\ response >= 400) =>
        /\ ProgressAnswer.status = "error"
        /\ ProgressAnswer.message

\* what does hold: a request that passed the checks made before the run and then
\* failed leaves the error record with its message
C20_RunFailureLeavesError ==
    (rq_pc = "done" /\ response >= 400 /\ PreChecksPass) =>
        ProgressAnswer = ErrorRecord

\* a request refused before the run leaves the progress record as it was
C20_RejectedLeavesRecord ==
    [][(rq_pc = "arrived" /\ rq_pc' = "done" /\ ~PreChecksPass) =>
          (response' = 400 /\ loading_progress' = loading_progress)]_vars

\* C19 for the requests: every write of the progress record moves the phase
\* forward or to error, and none follows completed or error
C19_RequestPhasesForward ==
    [][loading_progress' # loading_progress =>
          /\ ProgressAnswer.status \notin {"completed", "error"}
          /\ \/ loading_progress'.status = "error"
             \/ PhaseRank(ProgressAnswer.status) <= PhaseRank(loading_progress'.status)]_vars

-----------------------------------------------------------------------------
(* Two runs of one session side by side: playlist_load_api (views.py        *)
(* 164-221) and download_start_api (354-373) both report through            *)
(* update_progress (services.py 24-33) and the views' own writes, and both  *)
(* progress apis read the same session key (views.py 245, 379)              *)

\* a value of session['loading_progress'] with the run that wrote it
StoredRecord(run, status, current, total) ==
    [by |-> run, status |-> status, current |-> current, total |-> total]

InitConcurrent ==
    /\ impl = "service"
    /\ preferred_format = "mp3"
    /\ cc_pc = [r \in Runs |-> "running"]
    /\ cc_current = [r \in Runs |-> 0]
    /\ cc_total \in [Runs -> 1..MaxRows]
    /\ stored_progress = None
    /\ cc_polled = [r \in Runs |-> None]
    /\ IdleSelect
    /\ IdleLookup
    /\ IdleExec
    /\ IdleFetch
    /\ IdleSink
    /\ IdleRun
    /\ IdleResolve
    /\ IdleLoad
    /\ IdleName
    /\ IdleRequest
    /\ IdleOrder
    /\ IdleLibrary
    /\ IdleAccess

\* self.django_session['loading_progress'] = {'status': 'loading', ...}; save()
UpdateProgress(run) ==
    /\ cc_pc[run] = "running"
    /\ cc_current[run] < cc_total[run]
    /\ cc_current' = [cc_current EXCEPT ![run] = @ + 1]
    /\ stored_progress' =
         StoredRecord(run, "loading", cc_current[run] + 1, cc_total[run])
    /\ UNCHANGED <<ConcurrentFrameVars, cc_pc, cc_total, cc_polled>>

\* request.session['loading_progress'] = {'status': 'completed', ...}; save()
WriteCompleted(run) ==
    /\ cc_pc[run] = "running"
    /\ cc_current[run] = cc_total[run]
    /\ cc_pc' = [cc_pc EXCEPT ![run] = "done"]
    /\ stored_progress' =
         StoredRecord(run, "completed", cc_total[run], cc_total[run])
    /\ UNCHANGED <<ConcurrentFrameVars, cc_current, cc_total, cc_polled>>

\* request.session.get('loading_progress', {'status': 'pending'}) by the progress
\* page of a run
PollProgress(run) ==
    /\ stored_progress # None
    /\ cc_polled[run] # stored_progress
    /\ cc_polled' = [cc_polled EXCEPT ![run] = stored_progress]
    /\ UNCHANGED <<ConcurrentFrameVars, cc_pc, cc_current, cc_total, stored_progress>>

PlaylistLoad_UpdateProgress == UpdateProgress("load")
PlaylistLoad_Completed == WriteCompleted("load")
PlaylistProgressApi == PollProgress("load")
DownloadStart_UpdateProgress == UpdateProgress("download")
DownloadStart_Completed == WriteCompleted("download")
DownloadProgressApi == PollProgress("download")

NextConcurrent ==
    \/ PlaylistLoad_UpdateProgress
    \/ PlaylistLoad_Completed
    \/ PlaylistProgressApi
    \/ DownloadStart_UpdateProgress
    \/ DownloadStart_Completed
    \/ DownloadProgressApi

SpecConcurrent == InitConcurrent /\ [][NextConcurrent]_vars

(* ---- claims about concurrent runs ---- *)

\* C21 as stated: of two runs going on at once in one session, the progress
\* written by one is never read as the progress of the other, and the record a
\* run wrote last is not replaced by a record of the other run.
C21_RunsShareNoProgress ==
    \A r \in Runs :
        /\ cc_polled[r] # None => cc_polled[r].by = r
        /\ (cc_current[r] > 0 /\ stored_progress # None) =>
              \/ stored_progress.by = r
              \/ cc_current[CHOOSE o \in Runs : o # r] = 0

\* what does hold: the one record of the session is the one written last,
\* whichever run wrote it
C21_OneRecordPerSession ==
    stored_progress # None =>
        /\ stored_progress.current = cc_current[stored_progress.by]
        /\ stored_progress.total = cc_total[stored_progress.by]

-----------------------------------------------------------------------------
(* The order of the Track rows: Track.Meta.ordering (models.py 50-65) and   *)
(* the query of download_tracks (services.py 371-380)                       *)

MaxPosition == 2

\* the Track rows of a playlist in the order created, each with the position
\* it was saved with: Track.objects.create(..., position=track_data['position'])
Tables ==
    UNION {{[i \in 1..n |-> [yandex_track_id |-> i, position |-> f[i]]] :
              f \in [1..n -> 0..MaxPosition]} : n \in 1..MaxRows}

\* the orders of the items of s: s[p[1]], s[p[2]], ...
Orders(s) ==
    LET n == Len(s)
        perms == {p \in [1..n -> 1..n] : \A i, j \in 1..n : i # j => p[i] # p[j]}
    IN  {[i \in 1..n |-> s[p[i]]] : p \in perms}

\* a query without an ordering, which here gives the rows as created
ordering_none(rs) == {rs}

\* ordering = ['position']: the rows by position; the order of rows of one
\* position is the database's choice
ordering(rs) ==
    {o \in Orders(rs) : \A i \in 1..(Len(o) - 1) : o[i].position <= o[i + 1].position}

\* Track.objects.filter(playlist=playlist, yandex_track_id__in=track_ids)
filter_track_ids(rs, ids) ==
    LET Wanted(r) == r.yandex_track_id \in ids
    IN  SelectSeq(rs, Wanted)

InitOrder ==
    /\ impl = "service"
    /\ preferred_format = "mp3"
    /\ table \in Tables
    /\ wanted_ids \in SUBSET (1..MaxRows)
    /\ retrieved = None
    /\ iterated = None
    /\ od_pc = "query"
    /\ IdleSelect
    /\ IdleLookup
    /\ IdleExec
    /\ IdleFetch
    /\ IdleSink
    /\ IdleRun
    /\ IdleResolve
    /\ IdleLoad
    /\ IdleName
    /\ IdleRequest
    /\ IdleConcurrent
    /\ IdleLibrary
    /\ IdleAccess

\* the tracks of the playlist are read: Track.objects.filter(playlist=playlist)
QueryTracks ==
    /\ od_pc = "query"
    /\ retrieved = None
    /\ retrieved' \in ordering(table)
    /\ UNCHANGED <<OrderFrameVars, table, wanted_ids, iterated, od_pc>>

\* download_tracks: for idx, track in enumerate(tracks_to_download, 1)
DownloadTracks_Iterate ==
    /\ od_pc = "query"
    /\ iterated' \in ordering(filter_track_ids(table, wanted_ids))
    /\ od_pc' = "done"
    /\ UNCHANGED <<OrderFrameVars, table, wanted_ids, retrieved>>

NextOrder ==
    \/ QueryTracks
    \/ DownloadTracks_Iterate

SpecOrder == InitOrder /\ [][NextOrder]_vars

(* ---- claims about the order of tracks ---- *)

\* the positions of the rows of s never go down
NonDecreasing(s) == \A i \in 1..(Len(s) - 1) : s[i].position <= s[i + 1].position

\* s has the rows of t, each as often as t has it
SameRows(s, t) ==
    /\ Len(s) = Len(t)
    /\ \A r \in Range(t) :
          Cardinality({i \in 1..Len(s) : s[i] = r}) =
          Cardinality({i \in 1..Len(t) : t[i] = r})

\* C22: the tracks of a playlist are retrieved in non-decreasing position order
\* whatever order they were created in, and a download run goes through the
\* rows whose id was selected, all of them, in non-decreasing position order.
C22_PositionOrder ==
    /\ retrieved # None => (NonDecreasing(retrieved) /\ SameRows(retrieved, table))
    /\ od_pc = "done" =>
          /\ NonDecreasing(iterated)
          /\ SameRows(iterated, filter_track_ids(table, wanted_ids))

C22_Witness ==
    /\ od_pc = "done"
    /\ table = << [yandex_track_id |-> 1, position |-> 2],
                  [yandex_track_id |-> 2, position |-> 1],
                  [yandex_track_id |-> 3, position |-> 0] >>
    /\ wanted_ids = {1, 3}
    /\ retrieved = << table[3], table[2], table[1] >>
    /\ iterated = << table[3], table[1] >>

-----------------------------------------------------------------------------
(* ---- claims about the progress of metadata retrieval ---- *)

\* C25 as stated, for an owned playlist: after every processed batch of referenced
\* ids a progress event has been emitted with current = the tracks resolved so
\* far and total = the number of ids to fetch.
C25_ProgressAfterEveryBatch ==
    (ld_pc \in {"batches", "done"} /\ load_outcomes # <<>>) =>
        /\ Len(progress_events) >= Len(load_outcomes)
        /\ LastProgress.current = Len(tracks_data)
        /\ LastProgress.total = Len(missing_ids)

\* what does hold, owned playlists: the loader emits no progress event at all
C25_OwnedPathEmitsNothing ==
    ld_pc # "idle" => progress_events = <<>>

\* what does hold, liked tracks: one event before the first batch and one after
\* every processed batch, served by the batch request or by the per-id fallback,
\* with current = processed and total = the number of ids
C25_LikedProgressAfterEveryBatch ==
    (impl = "service" /\ fb_pc \in {"batch", "done"}) =>
        /\ Len(progress_events) = 1 + (batch_start \div batch_size)
        /\ LastProgress = ProgressEvent(processed, Len(track_ids))
        /\ processed = Len(tracks)

-----------------------------------------------------------------------------
(* ---- claims about the variant the web service downloads ---- *)

\* C26 as stated: for every variant list and preferred format, the variant that
\* download_tracks of the service downloads is the one that
\* get_best_quality_download_info selects for that list and that format.
C26_ServiceDownloadsSelectedVariant ==
    (nm_pc = "done" /\ impl = "service") =>
        best_info = select_best(download_infos, preferred_format, "core")

\* what does hold: the service downloads the first variant of the highest
\* bitrate of the list (None counted as 0), whatever the codecs
C26_ServiceDownloadsHighestBitrate ==
    (nm_pc = "done" /\ impl = "service") =>
        /\ \A i \in 1..Len(download_infos) :
              BitrateOrZero(download_infos[i]) <= BitrateOrZero(best_info)
        /\ \E i \in 1..Len(download_infos) : download_infos[i] = best_info

-----------------------------------------------------------------------------
(* The DownloadedTrack rows of one downloaded playlist and the files they   *)
(* name: download_tracks (services.py 401-430), delete_downloaded_track_view *)
(* (views.py 574-608) and delete_selected_tracks_view (views.py 529-570)     *)

MaxDownloads == 3

\* the file names "<artist> - <title>.<ext>" of the tracks downloaded: two tracks
\* of the same artist and title, or one track downloaded again, have one name
LibraryNames == {"a.mp3", "b.mp3", "b.flac"}

InitLibrary ==
    /\ impl = "service"
    /\ preferred_format = "mp3"
    /\ lib_files = {}
    /\ lib_records = <<>>
    /\ lib_next_id = 1
    /\ lib_pc = "ready"
    /\ IdleSelect
    /\ IdleLookup
    /\ IdleExec
    /\ IdleFetch
    /\ IdleSink
    /\ IdleRun
    /\ IdleResolve
    /\ IdleLoad
    /\ IdleName
    /\ IdleRequest
    /\ IdleConcurrent
    /\ IdleOrder
    /\ IdleAccess

\* the rows of rs whose id is not in ids
WithoutIds(rs, ids) ==
    LET Stays(r) == r.id \notin ids
    IN  SelectSeq(rs, Stays)

\* download_tracks, a track that is downloaded: open(filepath, 'wb') writes the
\* file, whether or not it was there, and DownloadedTrack.objects.create adds a row
LibraryTrack_Downloaded ==
    /\ lib_pc = "ready"
    /\ lib_next_id <= MaxDownloads
    /\ \E name \in LibraryNames :
          /\ lib_files' = lib_files \cup {name}
          /\ lib_records' = Append(lib_records, [id |-> lib_next_id, file_path |-> name])
    /\ lib_next_id' = lib_next_id + 1
    /\ UNCHANGED <<LibraryFrameVars, lib_pc>>

\* download_tracks, a track whose stream breaks after the file was opened: the
\* file is there and no row is created
LibraryTrack_Interrupted ==
    /\ lib_pc = "ready"
    /\ lib_next_id <= MaxDownloads
    /\ \E name \in LibraryNames : lib_files' = lib_files \cup {name}
    /\ UNCHANGED <<LibraryFrameVars, lib_records, lib_next_id, lib_pc>>

\* delete_downloaded_track_view, POST: the file of the row is unlinked if it
\* exists, then the row is deleted; an unlink that raises leaves both
DeleteDownloadedTrack ==
    /\ lib_pc = "ready"
    /\ \E k \in 1..Len(lib_records), unlinked \in BOOLEAN :
          LET track == lib_records[k]
          IN  IF track.file_path \in lib_files /\ ~unlinked
              THEN UNCHANGED <<lib_files, lib_records>>
              ELSE /\ lib_files' = lib_files \ {track.file_path}
                   /\ lib_records' = WithoutIds(lib_records, {track.id})
    /\ UNCHANGED <<LibraryFrameVars, lib_next_id, lib_pc>>

\* delete_selected_tracks_view, POST: for every selected row of the playlist the
\* file is unlinked if it exists and the row is deleted
DeleteSelectedTracks ==
    /\ lib_pc = "ready"
    /\ \E track_ids_int \in (SUBSET (1..MaxDownloads)) \ {{}} :
          LET tracks_found == {k \in 1..Len(lib_records) : lib_records[k].id \in track_ids_int}
          IN  /\ tracks_found # {}
              /\ lib_files' = lib_files \ {lib_records[k].file_path : k \in tracks_found}
              /\ lib_records' = WithoutIds(lib_records, track_ids_int)
    /\ UNCHANGED <<LibraryFrameVars, lib_next_id, lib_pc>>

NextLibrary ==
    \/ LibraryTrack_Downloaded
    \/ LibraryTrack_Interrupted
    \/ DeleteDownloadedTrack
    \/ DeleteSelectedTracks

SpecLibrary == InitLibrary /\ [][NextLibrary]_vars

(* ---- claims about downloaded tracks and their files ---- *)

\* C27 as stated: after any sequence of downloads and deletes every
\* DownloadedTrack row that is left names a file that exists.
C27_RecordsHaveFiles ==
    \A k \in 1..Len(lib_records) : lib_records[k].file_path \in lib_files

\* what does hold: it is so as long as no two rows name the same file
C27_RecordsHaveFilesWhenDistinct ==
    [][(/\ \A k, l \in 1..Len(lib_records) :
             k # l => lib_records[k].file_path # lib_records[l].file_path
        /\ C27_RecordsHaveFiles) => C27_RecordsHaveFiles']_vars

-----------------------------------------------------------------------------
(* download_tracks of the service with a session store that can fail:       *)
(* self.django_session.save() in update_progress (services.py 24-33) raises *)

\* a turn of the loop in which update_progress raised inside the try block, so
\* that the except branch (lines 435-439) ran: failed += 1, then update_progress
\* again; when that one raises too the exception leaves the loop, the outer
\* except (lines 452-453) returns False and download_start_api writes the error
\* record
RaisedStep(outcome, ok, written, before, aborts) ==
    LET track == RunTrack
        path == RunPath(impl, track)
        best == RunBest(impl, track)
    IN  /\ impl = "service"
        /\ InLoop
        /\ idx' = idx + 1
        /\ successful' = successful + ok
        /\ failed' = failed_after(failed, "failed")
        /\ progress_events' =
             progress_events \o before \o
               (IF aborts THEN <<SessionProgress("error", NoCount, NoCount)>>
                ELSE <<ProgressEvent(idx + 1, RunTotal)>>)
        /\ media' = IF written = NoFile THEN media ELSE [media EXCEPT ![path] = written]
        /\ downloaded_tracks' =
             IF ok = 1
             THEN Append(downloaded_tracks,
                         [title |-> TrackName(track), file_path |-> path,
                          file_size |-> written, format |-> path[2],
                          bitrate |-> best.bitrate_in_kbps])
             ELSE downloaded_tracks
        /\ run_outcomes' = Append(run_outcomes, outcome)
        /\ run_pc' = IF aborts THEN "done" ELSE run_pc
        /\ run_result' = IF aborts THEN "failure" ELSE run_result
        /\ UNCHANGED <<RunFrameVars, rows, download_track_ids, pacing>>

\* line 382: update_progress(idx-1, total, ...) raises before anything is asked
\* of the remote
Track_ProgressRaisesBefore ==
    \E aborts \in BOOLEAN :
        RaisedStep("progress_error", 0, NoFile, <<>>, aborts)

\* line 433: the file is written, the row created and successful += 1 done when
\* update_progress(idx, total, ...) raises
Track_ProgressRaisesAfter ==
    \E aborts \in BOOLEAN :
        RaisedStep("downloaded_progress_error", 1, 1,
                   <<ProgressEvent(idx, RunTotal)>>, aborts)

\* line 447: update_progress(total, total, ...) raises after the loop: the outer
\* except returns False
Finish_ProgressRaises ==
    /\ impl = "service"
    /\ run_pc = "loop"
    /\ idx >= RunTotal
    /\ run_succeeded(successful, failed)
    /\ run_result' = "failure"
    /\ progress_events' = Append(progress_events, SessionProgress("error", NoCount, NoCount))
    /\ run_pc' = "done"
    /\ UNCHANGED <<RunFrameVars, rows, download_track_ids, idx, successful, failed, pacing,
                   media, downloaded_tracks, run_outcomes>>

NextRunSession ==
    \/ NextRun
    \/ Track_ProgressRaisesBefore
    \/ Track_ProgressRaisesAfter
    \/ Finish_ProgressRaises

SpecRunSession == InitRun /\ [][NextRunSession]_vars

(* ---- claims about the counting of tracks ---- *)

\* every track gone through is counted once, and a run that went into its loop
\* goes through all of its tracks
CountedExactlyOnce ==
    /\ run_pc \in {"loop", "done"} => successful + failed = idx
    /\ (run_pc = "done" /\ run_outcomes # <<>>) => Len(run_outcomes) = RunTotal

\* C29 as stated: in download_tracks successful + failed is the number of tracks
\* gone through at the end of every turn of the loop, and a progress update that
\* raises neither makes a track count as successful and as failed nor keeps the
\* run from going through the remaining tracks.
C29_CountedExactlyOnce ==
    impl = "service" => CountedExactlyOnce

\* what does hold: it is so for every run in which no progress update raises
C29_CountedOnceWhileSessionSaves ==
    (\A i \in 1..Len(run_outcomes) :
        run_outcomes[i] \notin {"progress_error", "downloaded_progress_error"}) =>
            CountedExactlyOnce

-----------------------------------------------------------------------------
(* The views on downloaded tracks: download_file_view (views.py 423-437),   *)
(* download_zip_view (461-485), delete_selected_tracks_view (528-548) and   *)
(* delete_downloaded_track_view (573-580); all are @login_required          *)

AccessUsers == {"ann", "bob"}
DownloadedPlaylistIds == {1, 2}
DownloadedTrackIds == {1, 2, 3}

\* a check that lets every user through
owned_by_anyone(owner, user) == TRUE

\* get_object_or_404(DownloadedPlaylist, id=playlist_id, user=request.user)  and
\* if track.downloaded_playlist.user != request.user: raise Http404
owned_by(owner, user) == owner = user

\* downloaded_playlist.tracks.filter(id__in=track_ids)
playlist_tracks(playlist_id, ids) ==
    {t \in stored_tracks : track_playlist[t] = playlist_id /\ t \in ids}

InitAccess ==
    /\ impl = "service"
    /\ preferred_format = "mp3"
    /\ playlist_user \in [DownloadedPlaylistIds -> AccessUsers]
    /\ track_playlist \in [DownloadedTrackIds -> DownloadedPlaylistIds]
    /\ stored_tracks = DownloadedTrackIds
    /\ served = {}
    /\ removed = {}
    /\ acc_pc = "ready"
    /\ IdleSelect
    /\ IdleLookup
    /\ IdleExec
    /\ IdleFetch
    /\ IdleSink
    /\ IdleRun
    /\ IdleResolve
    /\ IdleLoad
    /\ IdleName
    /\ IdleRequest
    /\ IdleConcurrent
    /\ IdleOrder
    /\ IdleLibrary

\* download_file_view(request, track_id): the file of a track of the user
DownloadFileView ==
    /\ acc_pc = "ready"
    /\ \E user \in AccessUsers, track_id \in DownloadedTrackIds :
          /\ track_id \in stored_tracks
          /\ owned_by(playlist_user[track_playlist[track_id]], user)
          /\ served' = served \cup {<<user, track_id>>}
    /\ UNCHANGED <<AccessFrameVars, playlist_user, track_playlist, stored_tracks, removed,
                   acc_pc>>

\* download_zip_view(request, playlist_id) with zip_track_ids from the session: the
\* files of the tracks of that playlist of the user whose id is in the list
DownloadZipView ==
    /\ acc_pc = "ready"
    /\ \E user \in AccessUsers, playlist_id \in DownloadedPlaylistIds,
          zip_track_ids \in (SUBSET DownloadedTrackIds) \ {{}} :
          /\ owned_by(playlist_user[playlist_id], user)
          /\ playlist_tracks(playlist_id, zip_track_ids) # {}
          /\ served' = served \cup
                ({user} \X playlist_tracks(playlist_id, zip_track_ids))
    /\ UNCHANGED <<AccessFrameVars, playlist_user, track_playlist, stored_tracks, removed,
                   acc_pc>>

\* delete_selected_tracks_view(request, playlist_id), POST with tracks: the rows of
\* that playlist of the user whose id is in the list are deleted
DeleteSelectedTracksView ==
    /\ acc_pc = "ready"
    /\ \E user \in AccessUsers, playlist_id \in DownloadedPlaylistIds,
          posted \in (SUBSET DownloadedTrackIds) \ {{}} :
          /\ owned_by(playlist_user[playlist_id], user)
          /\ playlist_tracks(playlist_id, posted) # {}
          /\ removed' = removed \cup ({user} \X playlist_tracks(playlist_id, posted))
          /\ stored_tracks' = stored_tracks \ playlist_tracks(playlist_id, posted)
    /\ UNCHANGED <<AccessFrameVars, playlist_user, track_playlist, served, acc_pc>>

\* delete_downloaded_track_view(request, track_id), POST: the row of a track of
\* the user is deleted
DeleteDownloadedTrackView ==
    /\ acc_pc = "ready"
    /\ \E user \in AccessUsers, track_id \in DownloadedTrackIds :
          /\ track_id \in stored_tracks
          /\ owned_by(playlist_user[track_playlist[track_id]], user)
          /\ removed' = removed \cup {<<user, track_id>>}
          /\ stored_tracks' = stored_tracks \ {track_id}
    /\ UNCHANGED <<AccessFrameVars, playlist_user, track_playlist, served, acc_pc>>

NextAccess ==
    \/ DownloadFileView
    \/ DownloadZipView
    \/ DeleteSelectedTracksView
    \/ DeleteDownloadedTrackView

SpecAccess == InitAccess /\ [][NextAccess]_vars

(* ---- claims about access to downloaded tracks ---- *)

\* C30: whatever track and playlist ids a request carries, the four views serve
\* and delete only tracks whose downloaded playlist belongs to the requesting
\* user.
C30_OnlyOwnTracks ==
    \A access \in served \cup removed :
        playlist_user[track_playlist[access[2]]] = access[1]

C30_Witness ==
    /\ playlist_user = [p \in DownloadedPlaylistIds |-> IF p = 1 THEN "ann" ELSE "bob"]
    /\ track_playlist = [t \in DownloadedTrackIds |-> IF t = 3 THEN 2 ELSE 1]
    /\ served = {<<"ann", 1>>, <<"ann", 2>>, <<"bob", 3>>}
    /\ removed = {<<"ann", 1>>, <<"bob", 3>>}
    /\ stored_tracks = {2}

====
